---------------------------- MODULE Spec2Model ----------------------------
(* AECyberTV Telegram sales bot (aecybertv_bot_full_with_features.py).      *)
(* State: the per-chat USER_STATE map, the per-user context.user_data map,   *)
(* the four JSONL files, the wall clock and the messages sent while the last *)
(* update was handled.  One action per handler (per button code for the      *)
(* button router).  Updates are handled one at a time (python-telegram-bot   *)
(* processes updates sequentially), so every handler is one atomic step.     *)
EXTENDS Integers, Sequences, FiniteSets, TLC

VARIABLES USER_STATE,     \* chat_id -> dict (lang, package, phone, awaiting_phone)
          user_data,      \* user_id -> context.user_data dict
          TRIALS_FILE,    \* trials.jsonl: sequence of lines
          RENEWALS_FILE,  \* renewals.jsonl
          SUPPORT_FILE,   \* support_tickets.jsonl
          HISTORY_FILE,   \* customers.jsonl
          ADMIN_CHAT_ID,  \* configuration, fixed at start
          now,            \* wall clock, hours since 2025-10-01 00:00 Asia/Dubai
          sent,           \* messages sent while handling the last update
          last            \* the last update handled and what the handler did

vars == <<USER_STATE, user_data, TRIALS_FILE, RENEWALS_FILE, SUPPORT_FILE,
          HISTORY_FILE, ADMIN_CHAT_ID, now, sent, last>>

files == <<TRIALS_FILE, RENEWALS_FILE, SUPPORT_FILE, HISTORY_FILE>>

(* ------------------------------ bounds --------------------------------- *)
\* the complete system
MaxTrials == 2
MaxRenewals == 2
MaxTickets == 2
MaxCustomers == 2
MaxTicks == 3
\* the trial flow of two users (SpecTrial)
TrialCap == 2
\* the trial flow over the months (SpecWindow)
WindowCap == 2
WindowTicks == 3
\* the three ledgers with ids (SpecLedger): records in all of them together
LedgerCap == 2
\* the operator's actions on trials (SpecOperator, SpecFault)
OpCap == 2
OpTicks == 1
\* the subscribe flow of two chats (SpecSubscribe)
SubCap == 1
\* the four flows of one customer (SpecFlows): records in all files together
FlowCap == 2
\* phones of any shape (SpecPhone): length of the varying prefix
MaxPrefix == 2
\* the flows under storage and delivery faults (SpecStorage): records in all files
StorageCap == 2
\* one customer in two chats (SpecChats): records in all files together
ChatCap == 1
\* every kind of event at every step (SpecEvents): records in all files together
EventCap == 1

(* Python's None / an absent dict key, for each kind of value: a name, a text *)
(* (texts are sequences of characters) and a number                           *)
None == "None"
NoText == <<"None">>
NoId == 0

(* ------------------------------ universe ------------------------------- *)
Users == {1, 2}
\* a private chat has the id of its user
PrivateChats == Users
\* a group the bot is a member of
GroupChats == {3}
Chats == PrivateChats \cup GroupChats
Operator == 1

Digits == {"0", "1", "2", "3", "4", "5", "6", "7", "8", "9"}
Whitespace == {" "}

\* raw phone strings (sequences of characters) the environment supplies
RawP1 == <<"+", "9", "7", "1", "5", "0", "0", "1">>
RawP1b == <<"0", "0", "9", "7", "1", " ", "5", "0", "0", "1">>
RawP2 == <<"+", "9", "7", "1", "5", "0", "0", "2">>
RawShort == <<"1", "2">>
ContactPhones == {RawP1, RawP1b, RawP2, RawShort}

TxtName == <<"a", "l", "i">>
Texts == {TxtName, RawP2}
FileIds == {"photo1"}

Langs == {"ar", "en"}
PACKAGES == [n \in {"AECyberTV Kids", "AECyberTV Casual", "AECyberTV Executive", "AECyberTV Premium"} |->
               CASE n = "AECyberTV Kids" -> [code |-> "kids", price_aed |-> 70]
                 [] n = "AECyberTV Casual" -> [code |-> "casual", price_aed |-> 75]
                 [] n = "AECyberTV Executive" -> [code |-> "executive", price_aed |-> 200]
                 [] OTHER -> [code |-> "premium", price_aed |-> 250]]
TRIAL_HOURS == [c \in {"kids", "casual", "executive", "premium"} |->
                  CASE c = "kids" -> 8 [] c = "casual" -> 24 [] c = "executive" -> 10 [] OTHER -> 24]
\* the package names / codes / issue codes the buttons pressed in the model carry
PkgNames == {"AECyberTV Kids", "AECyberTV Casual"}
PkgCodes == {"kids", "casual"}
IssueCodes == {"LOGIN"}

(* ------------------------------ time ----------------------------------- *)
\* the clock advances in steps of fifteen days
TickSteps == {360}
\* days in Oct, Nov, Dec 2025, Jan 2026, counted from the epoch 2025-10-01
MonthLens == <<31, 30, 31, 31>>

RECURSIVE MonthOfDay(_, _)
MonthOfDay(d, m) ==
  IF m >= Len(MonthLens) \/ d < MonthLens[m] THEN m ELSE MonthOfDay(d - MonthLens[m], m + 1)

\* datetime.now(DUBAI_TZ).strftime("%Y-%m"): <<year, month>>
YearMonth(t) ==
  LET m == MonthOfDay(t \div 24, 1)
  IN IF m <= 3 THEN <<2025, 9 + m>> ELSE <<2026, m - 3>>

(* ------------------------------ phones --------------------------------- *)
RECURSIVE lstrip(_)
lstrip(s) == IF s # <<>> /\ Head(s) \in Whitespace THEN lstrip(Tail(s)) ELSE s

RECURSIVE rstrip(_)
rstrip(s) == IF s # <<>> /\ s[Len(s)] \in Whitespace THEN rstrip(SubSeq(s, 1, Len(s) - 1)) ELSE s

strip(s) == rstrip(lstrip(s))

KeepPhoneChar(ch) == ch \in Digits \cup {"+"}

normalize_phone(raw) ==
  LET s == strip(raw)
      t == IF Len(s) >= 2 /\ s[1] = "0" /\ s[2] = "0" THEN <<"+">> \o SubSeq(s, 3, Len(s)) ELSE s
  IN SelectSeq(t, KeepPhoneChar)

\* PHONE_RE = ^\+?\d[\d\s\-()]{6,}$
PHONE_RE_match_any_length(s) ==
  /\ s # <<>>
  /\ \A k \in 1..Len(s) : s[k] \in Digits \cup Whitespace \cup {"-", "(", ")"}
PHONE_RE_match_first_char(s) == s # <<>> /\ s[IF s[1] = "+" /\ Len(s) > 1 THEN 2 ELSE 1] \in Digits
PHONE_RE_match(s) ==
  LET i == IF s # <<>> /\ s[1] = "+" THEN 2 ELSE 1
  IN /\ Len(s) >= i + 6
     /\ s[i] \in Digits
     /\ \A k \in (i + 1)..Len(s) : s[k] \in Digits \cup Whitespace \cup {"-", "(", ")"}

PHONE_HASH_SALT == "change-this-salt"
\* sha256 of phone + salt: collision free, so equal digests mean equal inputs
phone_hash(e164) == <<"sha256", e164, PHONE_HASH_SALT>>

(* ------------------------------ JSONL files ---------------------------- *)
\* a line of a file: a JSON document, or a torn (unparsable) fragment
dumps(row) == <<"json", row>>
IsJson(line) == line[1] = "json"
loads(line) == line[2]

\* iter_jsonl: the rows of the lines that parse, in file order
iter_jsonl(f) ==
  LET good == SelectSeq(f, IsJson)
  IN [i \in 1..Len(good) |-> loads(good[i])]

\* save_jsonl: the id given to the appended row
next_id_zero_based(f) == Len(f)
next_id(f) == Len(f) + 1

\* save_jsonl: the file after appending row (row carries its id already)
save_jsonl(f, row) == Append(f, dumps(row))

\* save_customer: one more line, the record as it is (no id is assigned)
save_customer_dropped(f, rec) == f
save_customer(f, rec) == Append(f, dumps(rec))

\* rewrite of a file in place: open("w") truncates, then the rows are written one
\* by one; k is the number of rows written before the write stops (Len(rows) = all)
write_rows(rows, k) == [i \in 1..k |-> dumps(rows[i])]

(* ------------------------------ dict helpers --------------------------- *)
US0 == [lang |-> None, package |-> None, phone |-> NoText, awaiting_phone |-> FALSE]

UD0 == [renew_stage |-> None, renew_pkg_code |-> None, renew_username |-> NoText,
        trial_stage |-> None, trial_pkg_code |-> None, trial_phone_e164 |-> NoText,
        support_stage |-> None, support_issue_code |-> None, support_username |-> NoText,
        support_phone_e164 |-> NoText, support_details |-> NoText,
        support_photo_file_id |-> None, awaiting_trial_creds_for |-> NoId]

\* "lang" in get_state(chat_id)
HasLang(c) == USER_STATE[c].lang # None

get_lang(c) == IF USER_STATE[c].lang = None THEN "ar" ELSE USER_STATE[c].lang

_is_admin_any_user(u) == ADMIN_CHAT_ID # NoId
_is_admin(u) == ADMIN_CHAT_ID # NoId /\ ADMIN_CHAT_ID = u

\* truthiness of a text value: neither None nor ""
Truthy(txt) == txt # NoText /\ txt # <<>>

\* a message: recipient chat, catalogue key, and the values formatted into it
Msg(to, key, ref, text, exp) == [to |-> to, key |-> key, ref |-> ref, text |-> text, exp |-> exp]
M(to, key) == Msg(to, key, NoId, NoText, NoId)

\* "if ADMIN_CHAT_ID: send_message(ADMIN_CHAT_ID, ...)"
AdminNote(key, ref) ==
  IF ADMIN_CHAT_ID # NoId THEN <<Msg(ADMIN_CHAT_ID, key, ref, NoText, NoId)>> ELSE <<>>

\* what the handler of the last update did: handler, branch taken, chat and user
\* of the update, the button argument / text / normalized phone it carried, the
\* record id it produced or named, and the package of the flow it belonged to
Did(h, b, c, u) ==
  [handler |-> h, branch |-> b, chat |-> c, user |-> u, data |-> None, txt |-> NoText,
   phone |-> NoText, id |-> NoId, pkg |-> None, cut |-> NoId]

(* ------------------------------ records -------------------------------- *)
\* .get(key, "-")
OrDash(v) == IF v = NoText THEN <<"-">> ELSE v

\* save_customer's record (customers.jsonl rows carry no id)
customer_rec(c, u, package, phone) ==
  [chat_id |-> c, user_id |-> u, package |-> package, phone |-> phone, ts |-> now]

renewal_rec(id, c, u, ud, phone) ==
  [id |-> id, tg_chat_id |-> c, tg_user_id |-> u, package_code |-> ud.renew_pkg_code,
   username_text |-> OrDash(ud.renew_username), phone_e164 |-> phone, created_at |-> now]

\* TRIAL_HOURS.get(code, 24)
trial_hours_flat(code) == 24
trial_hours(code) == IF code \in DOMAIN TRIAL_HOURS THEN TRIAL_HOURS[code] ELSE 24

trial_rec(id, c, u, code, e164, txt) ==
  [id |-> id, tg_chat_id |-> c, tg_user_id |-> u, package_code |-> code,
   phone_e164 |-> e164, phone_hash |-> phone_hash(e164), username_text |-> txt,
   expires_at |-> now + trial_hours(code), requested_at |-> now,
   year_month |-> YearMonth(now), status |-> "pending"]

ticket_rec(id, c, u, ud) ==
  [id |-> id, tg_chat_id |-> c, tg_user_id |-> u, issue_code |-> ud.support_issue_code,
   username_text |-> OrDash(ud.support_username), phone_e164 |-> OrDash(ud.support_phone_e164),
   details |-> OrDash(ud.support_details), photo_file_id |-> ud.support_photo_file_id,
   created_at |-> now]

(* ------------------------------ eligibility ---------------------------- *)
\* on_contact's scan: a row with this phone hash and this year_month exists
monthly_limit_any_month(rows, ph, ym) == \E i \in 1..Len(rows) : rows[i].phone_hash = ph
monthly_limit_any_phone(rows, ph, ym) == \E i \in 1..Len(rows) : rows[i].year_month = ym
monthly_limit_hit(rows, ph, ym) ==
  \E i \in 1..Len(rows) : rows[i].phone_hash = ph /\ rows[i].year_month = ym

(* ------------------------------ status rewrites ------------------------ *)
\* r[key] = value on a dict: sets the key, adding it when absent
SetKey(r, key, value) == [k \in DOMAIN r \cup {key} |-> IF k = key THEN value ELSE r[k]]

reject_rows_all(rows, tid) == [i \in 1..Len(rows) |-> SetKey(rows[i], "status", "rejected")]
reject_rows(rows, tid) ==
  [i \in 1..Len(rows) |-> IF rows[i].id = tid THEN SetKey(rows[i], "status", "rejected") ELSE rows[i]]

\* a loop that falls back on the last row when no row has the id
grant_rows_or_last(rows, tid) ==
  [i \in 1..Len(rows) |->
     IF rows[i].id = tid \/ (i = Len(rows) /\ \A j \in 1..Len(rows) : rows[j].id # tid)
       THEN SetKey(SetKey(rows[i], "status", "granted"), "granted_at", now)
       ELSE rows[i]]

grant_rows(rows, tid) ==
  [i \in 1..Len(rows) |->
     IF rows[i].id = tid
       THEN SetKey(SetKey(rows[i], "status", "granted"), "granted_at", now)
       ELSE rows[i]]

\* admin_force_reply's loop: the rows with this id; the last one sets the variables
Matches(rows, tid) == {i \in 1..Len(rows) : rows[i].id = tid}
LastMatch(rows, tid) == rows[CHOOSE i \in Matches(rows, tid) : \A j \in Matches(rows, tid) : j <= i]

(* ------------------------------ offers --------------------------------- *)
\* build_embedded_offers, sorted by priority; start_at and the first hour after
\* end_at (23:59:59 of the last day), in hours since the epoch
OFFERS_ALL ==
  << [id |-> "uae_national_day_2025", priority |-> 100, start_at |-> 1368, end_before |-> 1704],
     [id |-> "new_year_2026", priority |-> 90, start_at |-> 2040, end_before |-> 2448],
     [id |-> "halloween2025", priority |-> 50, start_at |-> 552, end_before |-> 912] >>

IsActive(o) == o.start_at <= now /\ now < o.end_before
\* OFFERS_ALL is sorted by descending priority already and the sort is stable
active_offers == SelectSeq(OFFERS_ALL, IsActive)

(* ------------------------------ initial state -------------------------- *)
InitWith(admin) ==
  /\ USER_STATE = [c \in Chats |-> US0]
  /\ user_data = [u \in Users |-> UD0]
  /\ TRIALS_FILE = <<>>
  /\ RENEWALS_FILE = <<>>
  /\ SUPPORT_FILE = <<>>
  /\ HISTORY_FILE = <<>>
  /\ ADMIN_CHAT_ID = admin
  /\ now = 0
  /\ sent = <<>>
  /\ last = Did("main", "start", NoId, NoId)

Init == InitWith(Operator)

\* the clock moves on between updates
Tick ==
  /\ \E s \in TickSteps : now' = now + s
  /\ sent' = <<>>
  /\ last' = Did("clock", "tick", NoId, NoId)
  /\ UNCHANGED <<USER_STATE, user_data, files, ADMIN_CHAT_ID>>

(* ------------------------------ commands ------------------------------- *)
\* /start and /help
start(c, u) ==
  /\ sent' = <<M(c, "pick_lang")>>
  /\ last' = Did("start", "pick_lang", c, u)
  /\ UNCHANGED <<USER_STATE, user_data, files, ADMIN_CHAT_ID, now>>

(* ------------------------------ button router -------------------------- *)
\* the reply every branch after "lang|" gives while the chat has no language
NoLang(c, u, data) ==
  /\ sent' = <<M(c, "pick_lang")>>
  /\ last' = [Did("on_button", "no_lang", c, u) EXCEPT !.data = data]
  /\ UNCHANGED <<USER_STATE, user_data, files, ADMIN_CHAT_ID, now>>

btn_lang_reset(c, u, lang) ==
  /\ USER_STATE' = [USER_STATE EXCEPT ![c] = [US0 EXCEPT !.lang = lang]]
  /\ sent' = <<M(c, "welcome")>>
  /\ last' = [Did("on_button", "lang", c, u) EXCEPT !.data = lang]
  /\ UNCHANGED <<user_data, files, ADMIN_CHAT_ID, now>>

btn_lang(c, u, lang) ==
  /\ USER_STATE' = [USER_STATE EXCEPT ![c].lang = IF lang \in {"ar", "en"} THEN lang ELSE "ar"]
  /\ sent' = <<M(c, "welcome")>>
  /\ last' = [Did("on_button", "lang", c, u) EXCEPT !.data = lang]
  /\ UNCHANGED <<user_data, files, ADMIN_CHAT_ID, now>>

\* more_info, subscribe, offers, back_home, open_renew, open_trial, open_support and
\* the fallback: a menu or a text is shown, nothing is stored
btn_menu(c, u, data) ==
  IF ~HasLang(c) THEN NoLang(c, u, data)
  ELSE /\ sent' = <<M(c, data)>>
       /\ last' = [Did("on_button", "menu", c, u) EXCEPT !.data = data]
       /\ UNCHANGED <<USER_STATE, user_data, files, ADMIN_CHAT_ID, now>>

btn_pkg(c, u, pkg_name) ==
  IF ~HasLang(c) THEN NoLang(c, u, "pkg")
  ELSE IF pkg_name \notin DOMAIN PACKAGES
  THEN /\ sent' = <<M(c, "package_not_found")>>
       /\ last' = [Did("on_button", "pkg_unknown", c, u) EXCEPT !.data = pkg_name]
       /\ UNCHANGED <<USER_STATE, user_data, files, ADMIN_CHAT_ID, now>>
  ELSE /\ USER_STATE' = [USER_STATE EXCEPT ![c].package = pkg_name]
       /\ sent' = <<M(c, "breadcrumb_sel"), M(c, "terms")>>
       /\ last' = [Did("on_button", "pkg", c, u) EXCEPT !.data = pkg_name]
       /\ UNCHANGED <<user_data, files, ADMIN_CHAT_ID, now>>

btn_agree(c, u, pkg_name) ==
  IF ~HasLang(c) THEN NoLang(c, u, "agree")
  ELSE /\ sent' = <<M(c, "breadcrumb_agree"), M(c, "payment_instructions")>>
       /\ last' = [Did("on_button", "agree", c, u) EXCEPT !.data = pkg_name]
       /\ UNCHANGED <<USER_STATE, user_data, files, ADMIN_CHAT_ID, now>>

btn_paid(c, u, pkg_name) ==
  IF ~HasLang(c) THEN NoLang(c, u, "paid")
  ELSE /\ USER_STATE' = [USER_STATE EXCEPT ![c].awaiting_phone = TRUE]
       /\ sent' = <<M(c, "breadcrumb_paid"), M(c, "phone_request")>> \o AdminNote("i_paid_clicked", NoId)
       /\ last' = [Did("on_button", "paid", c, u) EXCEPT
                     !.data = pkg_name,
                     !.pkg = IF USER_STATE[c].package = None THEN pkg_name ELSE USER_STATE[c].package]
       /\ UNCHANGED <<user_data, files, ADMIN_CHAT_ID, now>>

\* offer_paid|idx
btn_offer_paid(c, u, idx) ==
  IF ~HasLang(c) THEN NoLang(c, u, "offer_paid")
  ELSE IF idx < 0 \/ idx >= Len(active_offers)
  THEN /\ sent' = <<M(c, "offers_none")>>
       /\ last' = Did("on_button", "offer_gone", c, u)
       /\ UNCHANGED <<USER_STATE, user_data, files, ADMIN_CHAT_ID, now>>
  ELSE /\ USER_STATE' = [USER_STATE EXCEPT ![c].awaiting_phone = TRUE]
       /\ sent' = <<M(c, "breadcrumb_paid"), M(c, "phone_request")>> \o AdminNote("offer_paid_clicked", NoId)
       /\ last' = [Did("on_button", "offer_paid", c, u) EXCEPT !.data = active_offers[idx + 1].id]
       /\ UNCHANGED <<user_data, files, ADMIN_CHAT_ID, now>>

btn_renew_pkg(c, u, code) ==
  IF ~HasLang(c) THEN NoLang(c, u, "renew_pkg")
  ELSE /\ user_data' = [user_data EXCEPT ![u].renew_stage = "await_username",
                                         ![u].renew_pkg_code = code]
       /\ sent' = <<M(c, "enter_username")>>
       /\ last' = [Did("on_button", "renew_pkg", c, u) EXCEPT !.data = code]
       /\ UNCHANGED <<USER_STATE, files, ADMIN_CHAT_ID, now>>

btn_trial_pkg(c, u, code) ==
  IF ~HasLang(c) THEN NoLang(c, u, "trial_pkg")
  ELSE /\ user_data' = [user_data EXCEPT ![u].trial_stage = "await_phone",
                                         ![u].trial_pkg_code = code]
       /\ sent' = <<Msg(c, "trial_share_phone", NoId, NoText, trial_hours(code))>>
       /\ last' = [Did("on_button", "trial_pkg", c, u) EXCEPT !.data = code]
       /\ UNCHANGED <<USER_STATE, files, ADMIN_CHAT_ID, now>>

btn_support_issue(c, u, code) ==
  IF ~HasLang(c) THEN NoLang(c, u, "support_issue")
  ELSE /\ user_data' = [user_data EXCEPT ![u].support_issue_code = code,
                                         ![u].support_stage = "await_username"]
       /\ sent' = <<M(c, "enter_username")>>
       /\ last' = [Did("on_button", "support_issue", c, u) EXCEPT !.data = code]
       /\ UNCHANGED <<USER_STATE, files, ADMIN_CHAT_ID, now>>

\* context.user_data["awaiting_trial_creds_for"] = int(tid)
set_pending_keep_first(ud, tid) ==
  IF ud.awaiting_trial_creds_for = NoId THEN [ud EXCEPT !.awaiting_trial_creds_for = tid] ELSE ud
set_pending(ud, tid) == [ud EXCEPT !.awaiting_trial_creds_for = tid]

\* trial_send|tid
btn_trial_send(c, u, tid) ==
  IF ~HasLang(c) THEN NoLang(c, u, "trial_send")
  ELSE IF ~_is_admin(u)
  THEN /\ sent' = <<>>
       /\ last' = [Did("on_button", "admins_only", c, u) EXCEPT !.id = tid]
       /\ UNCHANGED <<USER_STATE, user_data, files, ADMIN_CHAT_ID, now>>
  ELSE /\ user_data' = [user_data EXCEPT ![u] = set_pending(user_data[u], tid)]
       /\ sent' = <<Msg(u, "paste_credentials", tid, NoText, NoId)>>
       /\ last' = [Did("on_button", "trial_send", c, u) EXCEPT !.id = tid]
       /\ UNCHANGED <<USER_STATE, files, ADMIN_CHAT_ID, now>>

btn_trial_reject_notify(c, u, tid, cut) ==
  LET old == iter_jsonl(TRIALS_FILE)
      rows == reject_rows(old, tid)
      told == IF Matches(old, tid) # {}
                THEN <<Msg(LastMatch(old, tid).tg_chat_id, "trial_rejected", tid, NoText, NoId)>>
                ELSE <<>>
  IN IF ~HasLang(c) THEN NoLang(c, u, "trial_reject")
     ELSE IF ~_is_admin(u)
     THEN /\ sent' = <<>>
          /\ last' = [Did("on_button", "admins_only", c, u) EXCEPT !.id = tid]
          /\ UNCHANGED <<USER_STATE, user_data, files, ADMIN_CHAT_ID, now>>
     ELSE /\ cut = Len(rows)
          /\ TRIALS_FILE' = write_rows(rows, cut)
          /\ sent' = told \o <<Msg(c, "rejected_mark", tid, NoText, NoId)>>
          /\ last' = [Did("on_button", "trial_reject", c, u) EXCEPT !.id = tid, !.cut = cut]
          /\ UNCHANGED <<USER_STATE, user_data, RENEWALS_FILE, SUPPORT_FILE, HISTORY_FILE,
                         ADMIN_CHAT_ID, now>>

\* trial_reject|tid; cut is the number of rows the rewrite gets to write
btn_trial_reject(c, u, tid, cut) ==
  LET rows == reject_rows(iter_jsonl(TRIALS_FILE), tid)
  IN IF ~HasLang(c) THEN NoLang(c, u, "trial_reject")
     ELSE IF ~_is_admin(u)
     THEN /\ sent' = <<>>
          /\ last' = [Did("on_button", "admins_only", c, u) EXCEPT !.id = tid]
          /\ UNCHANGED <<USER_STATE, user_data, files, ADMIN_CHAT_ID, now>>
     ELSE /\ cut \in 0..Len(rows)
          /\ TRIALS_FILE' = write_rows(rows, cut)
          /\ IF cut = Len(rows)
               THEN /\ sent' = <<Msg(c, "rejected_mark", tid, NoText, NoId)>>
                    /\ last' = [Did("on_button", "trial_reject", c, u) EXCEPT !.id = tid, !.cut = cut]
               ELSE /\ sent' = <<>>
                    /\ last' = [Did("on_button", "trial_reject_failed", c, u) EXCEPT !.id = tid, !.cut = cut]
          /\ UNCHANGED <<USER_STATE, user_data, RENEWALS_FILE, SUPPORT_FILE, HISTORY_FILE,
                         ADMIN_CHAT_ID, now>>

(* ------------------------------ clearing a flow ----------------------- *)
\* any_text: for k in ("trial_stage","trial_pkg_code","trial_phone_e164"): pop
ClearTrialForgetStage(ud) == [ud EXCEPT !.trial_pkg_code = None, !.trial_phone_e164 = NoText]
ClearTrial(ud) ==
  [ud EXCEPT !.trial_stage = None, !.trial_pkg_code = None, !.trial_phone_e164 = NoText]

\* on_contact, on denial: for k in ("trial_stage","trial_pkg_code"): pop
ClearDeniedForgetStage(ud) == [ud EXCEPT !.trial_pkg_code = None]
ClearTrialDenied(ud) == [ud EXCEPT !.trial_stage = None, !.trial_pkg_code = None]

\* on_contact: for k in ("renew_stage","renew_pkg_code","renew_username"): pop
ClearRenewForgetStage(ud) == [ud EXCEPT !.renew_pkg_code = None, !.renew_username = NoText]
ClearRenew(ud) ==
  [ud EXCEPT !.renew_stage = None, !.renew_pkg_code = None, !.renew_username = NoText]

(* ------------------------------ text messages -------------------------- *)
\* MessageHandler(filters.TEXT & ~filters.COMMAND): reached by a text that is not
\* a reply in a private chat (those go to admin_force_reply, registered before)
any_text(c, u, raw) ==
  LET st == USER_STATE[c]
      ud == user_data[u]
      txt == strip(raw)
      phone == normalize_phone(txt)
      tid == next_id(TRIALS_FILE)
  IN IF st.awaiting_phone /\ txt # <<>>
     THEN \* Subscribe: phone typed
          IF PHONE_RE_match(txt)
          THEN /\ USER_STATE' = [USER_STATE EXCEPT ![c].phone = phone, ![c].awaiting_phone = FALSE]
               /\ HISTORY_FILE' = save_customer(HISTORY_FILE, customer_rec(c, u, st.package, phone))
               /\ sent' = AdminNote("phone_captured", NoId) \o <<M(c, "phone_saved"), M(c, "thank_you")>>
               /\ last' = [Did("any_text", "subscribe_phone", c, u) EXCEPT
                             !.txt = txt, !.phone = phone, !.pkg = st.package]
               /\ UNCHANGED <<user_data, TRIALS_FILE, RENEWALS_FILE, SUPPORT_FILE, ADMIN_CHAT_ID, now>>
          ELSE /\ sent' = <<M(c, "phone_invalid")>>
               /\ last' = [Did("any_text", "subscribe_phone_invalid", c, u) EXCEPT !.txt = txt]
               /\ UNCHANGED <<USER_STATE, user_data, files, ADMIN_CHAT_ID, now>>
     ELSE IF ud.renew_stage = "await_username"
     THEN /\ user_data' = [user_data EXCEPT ![u].renew_username = txt,
                                            ![u].renew_stage = "await_phone"]
          /\ sent' = <<M(c, "share_phone")>>
          /\ last' = [Did("any_text", "renew_username", c, u) EXCEPT !.txt = txt]
          /\ UNCHANGED <<USER_STATE, files, ADMIN_CHAT_ID, now>>
     ELSE IF ud.trial_stage = "await_username" /\ Truthy(ud.trial_phone_e164)
     THEN \* Trial: the record is created here, after the phone step
          /\ TRIALS_FILE' = save_jsonl(TRIALS_FILE,
                 trial_rec(tid, c, u, ud.trial_pkg_code, ud.trial_phone_e164, txt))
          /\ sent' = <<M(c, "trial_received")>> \o
                 (IF ADMIN_CHAT_ID # NoId
                    THEN <<Msg(ADMIN_CHAT_ID, "new_trial_request", tid, txt,
                               now + trial_hours(ud.trial_pkg_code))>>
                    ELSE <<>>)
          /\ user_data' = [user_data EXCEPT ![u] = ClearTrial(ud)]
          /\ last' = [Did("any_text", "trial_username", c, u) EXCEPT
                        !.txt = txt, !.id = tid, !.phone = ud.trial_phone_e164,
                        !.pkg = ud.trial_pkg_code]
          /\ UNCHANGED <<USER_STATE, RENEWALS_FILE, SUPPORT_FILE, HISTORY_FILE, ADMIN_CHAT_ID, now>>
     ELSE IF ud.support_stage = "await_username"
     THEN /\ user_data' = [user_data EXCEPT ![u].support_username = txt,
                                            ![u].support_stage = "await_phone"]
          /\ sent' = <<M(c, "share_phone")>>
          /\ last' = [Did("any_text", "support_username", c, u) EXCEPT !.txt = txt]
          /\ UNCHANGED <<USER_STATE, files, ADMIN_CHAT_ID, now>>
     ELSE IF ud.support_stage = "await_details"
     THEN /\ user_data' = [user_data EXCEPT ![u].support_details = txt,
                                            ![u].support_stage = "await_optional_screenshot"]
          /\ sent' = <<M(c, "send_screenshot_or_done")>>
          /\ last' = [Did("any_text", "support_details", c, u) EXCEPT !.txt = txt]
          /\ UNCHANGED <<USER_STATE, files, ADMIN_CHAT_ID, now>>
     ELSE \* No state: show menu
          /\ sent' = <<M(c, IF st.lang = None THEN "pick_lang" ELSE "welcome")>>
          /\ last' = [Did("any_text", "menu", c, u) EXCEPT !.txt = txt]
          /\ UNCHANGED <<USER_STATE, user_data, files, ADMIN_CHAT_ID, now>>

(* ------------------------------ contact share -------------------------- *)
on_contact(c, u, raw) ==
  LET st == USER_STATE[c]
      ud == user_data[u]
      phone == normalize_phone(raw)
      rid == next_id(RENEWALS_FILE)
  IN IF st.awaiting_phone
     THEN \* Subscribe phone collection (after "I Paid")
          /\ USER_STATE' = [USER_STATE EXCEPT ![c].phone = phone, ![c].awaiting_phone = FALSE]
          /\ HISTORY_FILE' = save_customer(HISTORY_FILE, customer_rec(c, u, st.package, phone))
          /\ sent' = AdminNote("phone_captured_contact", NoId) \o
                       <<M(c, "phone_saved"), M(c, "thank_you")>>
          /\ last' = [Did("on_contact", "subscribe_phone", c, u) EXCEPT
                        !.phone = phone, !.pkg = st.package]
          /\ UNCHANGED <<user_data, TRIALS_FILE, RENEWALS_FILE, SUPPORT_FILE, ADMIN_CHAT_ID, now>>
     ELSE IF ud.renew_stage = "await_phone"
     THEN /\ RENEWALS_FILE' = save_jsonl(RENEWALS_FILE, renewal_rec(rid, c, u, ud, phone))
          /\ sent' = <<M(c, "renewal_received")>> \o AdminNote("new_renewal", rid)
          /\ user_data' = [user_data EXCEPT ![u] = ClearRenew(ud)]
          /\ last' = [Did("on_contact", "renew_phone", c, u) EXCEPT
                        !.phone = phone, !.id = rid, !.pkg = ud.renew_pkg_code]
          /\ UNCHANGED <<USER_STATE, TRIALS_FILE, SUPPORT_FILE, HISTORY_FILE, ADMIN_CHAT_ID, now>>
     ELSE IF ud.trial_stage = "await_phone"
     THEN \* Trial phone (limit 1/month)
          IF monthly_limit_hit(iter_jsonl(TRIALS_FILE), phone_hash(phone), YearMonth(now))
          THEN /\ sent' = <<M(c, "trial_used_this_month")>>
               /\ user_data' = [user_data EXCEPT ![u] = ClearTrialDenied(ud)]
               /\ last' = [Did("on_contact", "trial_denied", c, u) EXCEPT
                             !.phone = phone, !.pkg = ud.trial_pkg_code]
               /\ UNCHANGED <<USER_STATE, files, ADMIN_CHAT_ID, now>>
          ELSE /\ sent' = <<M(c, "enter_username")>>
               /\ user_data' = [user_data EXCEPT ![u].trial_phone_e164 = phone,
                                                 ![u].trial_stage = "await_username"]
               /\ last' = [Did("on_contact", "trial_phone", c, u) EXCEPT
                             !.phone = phone, !.pkg = ud.trial_pkg_code]
               /\ UNCHANGED <<USER_STATE, files, ADMIN_CHAT_ID, now>>
     ELSE IF ud.support_stage = "await_phone"
     THEN /\ user_data' = [user_data EXCEPT ![u].support_phone_e164 = phone,
                                            ![u].support_stage = "await_details"]
          /\ sent' = <<M(c, "describe_issue")>>
          /\ last' = [Did("on_contact", "support_phone", c, u) EXCEPT !.phone = phone]
          /\ UNCHANGED <<USER_STATE, files, ADMIN_CHAT_ID, now>>
     ELSE /\ sent' = <<>>
          /\ last' = [Did("on_contact", "ignored", c, u) EXCEPT !.phone = phone]
          /\ UNCHANGED <<USER_STATE, user_data, files, ADMIN_CHAT_ID, now>>

(* ------------------------------ photo, /done --------------------------- *)
\* MessageHandler(filters.PHOTO & filters.ChatType.PRIVATE)
on_photo_any_step(c, u, file_id) ==
  IF user_data[u].support_issue_code # None
  THEN /\ user_data' = [user_data EXCEPT ![u].support_photo_file_id = file_id]
       /\ sent' = <<M(c, "screenshot_attached")>>
       /\ last' = [Did("on_photo", "attached", c, u) EXCEPT !.data = file_id]
       /\ UNCHANGED <<USER_STATE, files, ADMIN_CHAT_ID, now>>
  ELSE /\ sent' = <<>>
       /\ last' = [Did("on_photo", "ignored", c, u) EXCEPT !.data = file_id]
       /\ UNCHANGED <<USER_STATE, user_data, files, ADMIN_CHAT_ID, now>>
on_photo(c, u, file_id) ==
  IF user_data[u].support_stage = "await_optional_screenshot"
  THEN /\ user_data' = [user_data EXCEPT ![u].support_photo_file_id = file_id]
       /\ sent' = <<M(c, "screenshot_attached")>>
       /\ last' = [Did("on_photo", "attached", c, u) EXCEPT !.data = file_id]
       /\ UNCHANGED <<USER_STATE, files, ADMIN_CHAT_ID, now>>
  ELSE /\ sent' = <<>>
       /\ last' = [Did("on_photo", "ignored", c, u) EXCEPT !.data = file_id]
       /\ UNCHANGED <<USER_STATE, user_data, files, ADMIN_CHAT_ID, now>>

\* keys of user_data that start with "support_"
ClearSupport(ud) ==
  [ud EXCEPT !.support_stage = None, !.support_issue_code = None, !.support_username = NoText,
             !.support_phone_e164 = NoText, !.support_details = NoText,
             !.support_photo_file_id = None]

\* CommandHandler("done")
support_done(c, u) ==
  LET ud == user_data[u]
      sid == next_id(SUPPORT_FILE)
  IN IF ud.support_issue_code = None
     THEN /\ sent' = <<>>
          /\ last' = Did("support_done", "ignored", c, u)
          /\ UNCHANGED <<USER_STATE, user_data, files, ADMIN_CHAT_ID, now>>
     ELSE /\ SUPPORT_FILE' = save_jsonl(SUPPORT_FILE, ticket_rec(sid, c, u, ud))
          /\ sent' = <<Msg(c, "ticket_created", sid, NoText, NoId)>> \o AdminNote("new_support_ticket", sid)
          /\ user_data' = [user_data EXCEPT ![u] = ClearSupport(ud)]
          /\ last' = [Did("support_done", "ticket", c, u) EXCEPT !.id = sid, !.data = ud.support_stage]
          /\ UNCHANGED <<USER_STATE, TRIALS_FILE, RENEWALS_FILE, HISTORY_FILE, ADMIN_CHAT_ID, now>>

(* ------------------------------ operator reply ------------------------- *)
\* MessageHandler(filters.REPLY & filters.ChatType.PRIVATE): every reply in a private
\* chat that is neither a command, a contact nor a photo; cut as in btn_trial_reject
admin_force_reply(c, u, raw, cut) ==
  LET tid == user_data[u].awaiting_trial_creds_for
      creds == strip(raw)
      old == iter_jsonl(TRIALS_FILE)
      rows == grant_rows(old, tid)
      hit == Matches(old, tid) # {}
      r == LastMatch(old, tid)
  IN IF ~_is_admin(u)
     THEN /\ sent' = <<>>
          /\ last' = [Did("admin_force_reply", "not_admin", c, u) EXCEPT !.txt = creds]
          /\ UNCHANGED <<USER_STATE, user_data, files, ADMIN_CHAT_ID, now>>
     ELSE IF tid = NoId
     THEN /\ sent' = <<>>
          /\ last' = [Did("admin_force_reply", "nothing_pending", c, u) EXCEPT !.txt = creds]
          /\ UNCHANGED <<USER_STATE, user_data, files, ADMIN_CHAT_ID, now>>
     ELSE /\ cut \in 0..Len(rows)
          /\ user_data' = [user_data EXCEPT ![u].awaiting_trial_creds_for = NoId]
          /\ TRIALS_FILE' = write_rows(rows, cut)
          /\ IF cut < Len(rows)
               THEN /\ sent' = <<>>
                    /\ last' = [Did("admin_force_reply", "grant_failed", c, u) EXCEPT
                                  !.txt = creds, !.id = tid, !.cut = cut]
               ELSE IF hit
               THEN /\ sent' = <<Msg(r.tg_chat_id, "trial_activated", tid, creds, r.expires_at),
                                 M(c, "credentials_sent")>>
                    /\ last' = [Did("admin_force_reply", "granted", c, u) EXCEPT
                                  !.txt = creds, !.id = tid, !.pkg = r.package_code, !.cut = cut]
               ELSE /\ sent' = <<>>
                    /\ last' = [Did("admin_force_reply", "no_such_trial", c, u) EXCEPT
                                  !.txt = creds, !.id = tid, !.cut = cut]
          /\ UNCHANGED <<USER_STATE, RENEWALS_FILE, SUPPORT_FILE, HISTORY_FILE, ADMIN_CHAT_ID, now>>

(* ------------------------------ storage faults ------------------------ *)
\* The handlers when the append they make fails (open("a") raises, nothing is
\* written).  save_customer logs the error and returns, so the handler goes on;
\* save_jsonl raises, the handler stops at that line and handle_error logs the
\* exception.  Enabled where the handler appends a record.
any_text_append_fails(c, u, raw) ==
  LET st == USER_STATE[c]
      ud == user_data[u]
      txt == strip(raw)
      phone == normalize_phone(txt)
  IN IF st.awaiting_phone /\ txt # <<>>
     THEN /\ PHONE_RE_match(txt)
          /\ USER_STATE' = [USER_STATE EXCEPT ![c].phone = phone, ![c].awaiting_phone = FALSE]
          /\ sent' = AdminNote("phone_captured", NoId) \o <<M(c, "phone_saved"), M(c, "thank_you")>>
          /\ last' = [Did("any_text", "subscribe_append_failed", c, u) EXCEPT
                        !.txt = txt, !.phone = phone, !.pkg = st.package]
          /\ UNCHANGED <<user_data, files, ADMIN_CHAT_ID, now>>
     ELSE /\ ud.renew_stage # "await_username"
          /\ ud.trial_stage = "await_username" /\ Truthy(ud.trial_phone_e164)
          /\ sent' = <<>>
          /\ last' = [Did("any_text", "trial_append_failed", c, u) EXCEPT
                        !.txt = txt, !.phone = ud.trial_phone_e164, !.pkg = ud.trial_pkg_code]
          /\ UNCHANGED <<USER_STATE, user_data, files, ADMIN_CHAT_ID, now>>

on_contact_append_fails(c, u, raw) ==
  LET st == USER_STATE[c]
      ud == user_data[u]
      phone == normalize_phone(raw)
  IN IF st.awaiting_phone
     THEN /\ USER_STATE' = [USER_STATE EXCEPT ![c].phone = phone, ![c].awaiting_phone = FALSE]
          /\ sent' = AdminNote("phone_captured_contact", NoId) \o
                       <<M(c, "phone_saved"), M(c, "thank_you")>>
          /\ last' = [Did("on_contact", "subscribe_append_failed", c, u) EXCEPT
                        !.phone = phone, !.pkg = st.package]
          /\ UNCHANGED <<user_data, files, ADMIN_CHAT_ID, now>>
     ELSE /\ ud.renew_stage = "await_phone"
          /\ sent' = <<>>
          /\ last' = [Did("on_contact", "renew_append_failed", c, u) EXCEPT
                        !.phone = phone, !.pkg = ud.renew_pkg_code]
          /\ UNCHANGED <<USER_STATE, user_data, files, ADMIN_CHAT_ID, now>>

support_done_append_fails(c, u) ==
  /\ user_data[u].support_issue_code # None
  /\ sent' = <<>>
  /\ last' = [Did("support_done", "support_append_failed", c, u) EXCEPT
                !.data = user_data[u].support_stage]
  /\ UNCHANGED <<USER_STATE, user_data, files, ADMIN_CHAT_ID, now>>

(* ------------------------------ delivery faults ----------------------- *)
\* The handlers when a send they await raises after the record was appended:
\* k sends go through, the next one raises.  A send inside try/except (the
\* operator note of the subscribe step) is skipped and the handler goes on; any
\* other stops the handler at that line (handle_error logs the exception), so
\* the statements after it are not executed.  Enabled where the handler appends.
any_text_send_fails(c, u, raw, k) ==
  LET st == USER_STATE[c]
      ud == user_data[u]
      txt == strip(raw)
      phone == normalize_phone(txt)
      tid == next_id(TRIALS_FILE)
      note == AdminNote("phone_captured", NoId)
      replies == <<M(c, "phone_saved"), M(c, "thank_you")>>
      sends == <<M(c, "trial_received")>> \o
                 (IF ADMIN_CHAT_ID # NoId
                    THEN <<Msg(ADMIN_CHAT_ID, "new_trial_request", tid, txt,
                               now + trial_hours(ud.trial_pkg_code))>>
                    ELSE <<>>)
  IN IF st.awaiting_phone /\ txt # <<>>
     THEN /\ PHONE_RE_match(txt)
          /\ k \in 0..(Len(note) + 1)
          /\ USER_STATE' = [USER_STATE EXCEPT ![c].phone = phone, ![c].awaiting_phone = FALSE]
          /\ HISTORY_FILE' = save_customer(HISTORY_FILE, customer_rec(c, u, st.package, phone))
          /\ sent' = IF k < Len(note) THEN replies ELSE note \o SubSeq(replies, 1, k - Len(note))
          /\ last' = [Did("any_text", "subscribe_send_failed", c, u) EXCEPT
                        !.txt = txt, !.phone = phone, !.pkg = st.package]
          /\ UNCHANGED <<user_data, TRIALS_FILE, RENEWALS_FILE, SUPPORT_FILE, ADMIN_CHAT_ID, now>>
     ELSE /\ ud.renew_stage # "await_username"
          /\ ud.trial_stage = "await_username" /\ Truthy(ud.trial_phone_e164)
          /\ k \in 0..(Len(sends) - 1)
          /\ TRIALS_FILE' = save_jsonl(TRIALS_FILE,
                 trial_rec(tid, c, u, ud.trial_pkg_code, ud.trial_phone_e164, txt))
          /\ sent' = SubSeq(sends, 1, k)
          /\ last' = [Did("any_text", "trial_send_failed", c, u) EXCEPT
                        !.txt = txt, !.id = tid, !.phone = ud.trial_phone_e164,
                        !.pkg = ud.trial_pkg_code]
          /\ UNCHANGED <<USER_STATE, user_data, RENEWALS_FILE, SUPPORT_FILE, HISTORY_FILE,
                         ADMIN_CHAT_ID, now>>

on_contact_send_fails(c, u, raw, k) ==
  LET st == USER_STATE[c]
      ud == user_data[u]
      phone == normalize_phone(raw)
      rid == next_id(RENEWALS_FILE)
      note == AdminNote("phone_captured_contact", NoId)
      replies == <<M(c, "phone_saved"), M(c, "thank_you")>>
      sends == <<M(c, "renewal_received")>> \o AdminNote("new_renewal", rid)
  IN IF st.awaiting_phone
     THEN /\ k \in 0..(Len(note) + 1)
          /\ USER_STATE' = [USER_STATE EXCEPT ![c].phone = phone, ![c].awaiting_phone = FALSE]
          /\ HISTORY_FILE' = save_customer(HISTORY_FILE, customer_rec(c, u, st.package, phone))
          /\ sent' = IF k < Len(note) THEN replies ELSE note \o SubSeq(replies, 1, k - Len(note))
          /\ last' = [Did("on_contact", "subscribe_send_failed", c, u) EXCEPT
                        !.phone = phone, !.pkg = st.package]
          /\ UNCHANGED <<user_data, TRIALS_FILE, RENEWALS_FILE, SUPPORT_FILE, ADMIN_CHAT_ID, now>>
     ELSE /\ ud.renew_stage = "await_phone"
          /\ k \in 0..(Len(sends) - 1)
          /\ RENEWALS_FILE' = save_jsonl(RENEWALS_FILE, renewal_rec(rid, c, u, ud, phone))
          /\ sent' = SubSeq(sends, 1, k)
          /\ last' = [Did("on_contact", "renew_send_failed", c, u) EXCEPT
                        !.phone = phone, !.id = rid, !.pkg = ud.renew_pkg_code]
          /\ UNCHANGED <<USER_STATE, user_data, TRIALS_FILE, SUPPORT_FILE, HISTORY_FILE,
                         ADMIN_CHAT_ID, now>>

support_done_send_fails(c, u, k) ==
  LET ud == user_data[u]
      sid == next_id(SUPPORT_FILE)
      sends == <<Msg(c, "ticket_created", sid, NoText, NoId)>> \o AdminNote("new_support_ticket", sid)
  IN /\ ud.support_issue_code # None
     /\ k \in 0..(Len(sends) - 1)
     /\ SUPPORT_FILE' = save_jsonl(SUPPORT_FILE, ticket_rec(sid, c, u, ud))
     /\ sent' = SubSeq(sends, 1, k)
     /\ last' = [Did("support_done", "support_send_failed", c, u) EXCEPT
                   !.id = sid, !.data = ud.support_stage]
     /\ UNCHANGED <<USER_STATE, user_data, TRIALS_FILE, RENEWALS_FILE, HISTORY_FILE,
                    ADMIN_CHAT_ID, now>>

(* ------------------------------ next-state relation -------------------- *)
\* an update comes from a user in a chat; in a private chat the two ids are equal
Sessions == {<<u, u>> : u \in Users}

\* bounds of a run: the number of lines of a file, the number of clock steps
AtMost(f, n) == Len(f) <= n
Before(ticks) == \A s \in TickSteps : now <= ticks * s

\* the trial ids an operator button can carry: those of the requests notified so
\* far; after a failed rewrite the file may have lost the rows of some of them
ButtonTids(faults) == IF faults THEN 1..OpCap ELSE 1..Len(TRIALS_FILE)

\* how far a rewrite of n rows gets: to the end, or with storage faults anywhere
Cuts(n, faults) == IF faults THEN 0..n ELSE {n}

MenuButtons == {"more_info", "open_trial"}

\* The complete system: every handler, every input
Next ==
  \/ Tick /\ Before(MaxTicks)'
  \/ \E s \in Sessions : start(s[1], s[2])
  \/ \E s \in Sessions, lang \in Langs : btn_lang(s[1], s[2], lang)
  \/ \E s \in Sessions, data \in MenuButtons : btn_menu(s[1], s[2], data)
  \/ \E s \in Sessions, n \in PkgNames : btn_pkg(s[1], s[2], n)
  \/ \E s \in Sessions, n \in PkgNames : btn_agree(s[1], s[2], n)
  \/ \E s \in Sessions, n \in PkgNames : btn_paid(s[1], s[2], n)
  \/ \E s \in Sessions : btn_offer_paid(s[1], s[2], 0)
  \/ \E s \in Sessions, code \in PkgCodes : btn_renew_pkg(s[1], s[2], code)
  \/ \E s \in Sessions, code \in PkgCodes : btn_trial_pkg(s[1], s[2], code)
  \/ \E s \in Sessions, code \in IssueCodes : btn_support_issue(s[1], s[2], code)
  \/ \E s \in Sessions, tid \in ButtonTids(FALSE) : btn_trial_send(s[1], s[2], tid)
  \/ \E s \in Sessions, tid \in ButtonTids(FALSE) :
       btn_trial_reject(s[1], s[2], tid, Len(iter_jsonl(TRIALS_FILE)))
  \/ \E s \in Sessions, txt \in Texts :
       /\ any_text(s[1], s[2], txt)
       /\ AtMost(TRIALS_FILE, MaxTrials)' /\ AtMost(HISTORY_FILE, MaxCustomers)'
  \/ \E s \in Sessions, txt \in Texts :
       /\ s[1] \in PrivateChats
       /\ admin_force_reply(s[1], s[2], txt, Len(iter_jsonl(TRIALS_FILE)))
  \/ \E s \in Sessions, raw \in ContactPhones :
       /\ on_contact(s[1], s[2], raw)
       /\ AtMost(RENEWALS_FILE, MaxRenewals)' /\ AtMost(HISTORY_FILE, MaxCustomers)'
  \/ \E s \in Sessions, f \in FileIds : s[1] \in PrivateChats /\ on_photo(s[1], s[2], f)
  \/ \E s \in Sessions : support_done(s[1], s[2]) /\ AtMost(SUPPORT_FILE, MaxTickets)'

Spec == Init /\ [][Next]_vars

(* The trial flow of two users in their private chats, who may share a phone *)
TrialPhones == {RawP1, RawP1b, RawShort}

NextTrial ==
  \/ \E s \in Sessions : btn_lang(s[1], s[2], "en")
  \/ \E s \in Sessions, code \in PkgCodes : btn_trial_pkg(s[1], s[2], code)
  \/ \E s \in Sessions, raw \in TrialPhones : on_contact(s[1], s[2], raw)
  \/ \E s \in Sessions : any_text(s[1], s[2], TxtName) /\ AtMost(TRIALS_FILE, TrialCap)'

SpecTrial == Init /\ [][NextTrial]_vars

(* The trial flow over the months: one package, the clock moving *)
NextWindow ==
  \/ Tick /\ Before(WindowTicks)'
  \/ \E s \in Sessions : btn_lang(s[1], s[2], "en")
  \/ \E s \in Sessions : btn_trial_pkg(s[1], s[2], "kids")
  \/ \E s \in Sessions, raw \in {RawP1, RawShort} : on_contact(s[1], s[2], raw)
  \/ \E s \in Sessions : any_text(s[1], s[2], TxtName) /\ AtMost(TRIALS_FILE, WindowCap)'

SpecWindow == Init /\ [][NextWindow]_vars

(* The three ledgers with ids: the operator alone goes through the renew, trial *)
(* and support flows, one flow at a time, and acts on the trial requests;       *)
(* rewrites complete                                                            *)
OperatorSessions == {<<Operator, Operator>>}

\* no flow of the user is in progress
NoFlow(u) ==
  /\ user_data[u].renew_stage = None
  /\ user_data[u].trial_stage = None
  /\ user_data[u].support_issue_code = None

LedgersAtMost(n) == Len(TRIALS_FILE) + Len(RENEWALS_FILE) + Len(SUPPORT_FILE) <= n

NextLedger ==
  \/ \E s \in OperatorSessions : btn_lang(s[1], s[2], "en")
  \/ \E s \in OperatorSessions : NoFlow(s[2]) /\ btn_renew_pkg(s[1], s[2], "kids")
  \/ \E s \in OperatorSessions : NoFlow(s[2]) /\ btn_trial_pkg(s[1], s[2], "kids")
  \/ \E s \in OperatorSessions : NoFlow(s[2]) /\ btn_support_issue(s[1], s[2], "LOGIN")
  \/ \E s \in OperatorSessions : any_text(s[1], s[2], TxtName) /\ LedgersAtMost(LedgerCap)'
  \/ \E s \in OperatorSessions, raw \in {RawP1, RawP2} :
       on_contact(s[1], s[2], raw) /\ LedgersAtMost(LedgerCap)'
  \/ \E s \in OperatorSessions : support_done(s[1], s[2]) /\ LedgersAtMost(LedgerCap)'
  \/ \E s \in OperatorSessions, tid \in ButtonTids(FALSE) : btn_trial_send(s[1], s[2], tid)
  \/ \E s \in OperatorSessions, tid \in ButtonTids(FALSE), cut \in Cuts(Len(iter_jsonl(TRIALS_FILE)), FALSE) :
       btn_trial_reject(s[1], s[2], tid, cut)
  \/ \E s \in OperatorSessions, cut \in Cuts(Len(iter_jsonl(TRIALS_FILE)), FALSE) :
       admin_force_reply(s[1], s[2], TxtName, cut)

SpecLedger == Init /\ [][NextLedger]_vars

(* The subscribe flow of two chats: language, package, terms, payment, phone *)
NextSubscribe ==
  \/ \E s \in Sessions : btn_lang(s[1], s[2], "en")
  \/ \E s \in Sessions, n \in PkgNames : btn_pkg(s[1], s[2], n)
  \/ \E s \in Sessions, n \in PkgNames : btn_agree(s[1], s[2], n)
  \/ \E s \in Sessions, n \in PkgNames : btn_paid(s[1], s[2], n)
  \/ \E s \in Sessions, raw \in ContactPhones :
       on_contact(s[1], s[2], raw) /\ AtMost(HISTORY_FILE, SubCap)'
  \/ \E s \in Sessions, txt \in Texts :
       any_text(s[1], s[2], txt) /\ AtMost(HISTORY_FILE, SubCap)'

SpecSubscribe == Init /\ [][NextSubscribe]_vars

(* The operator (user 1) and a customer (user 2): trial requests, and the      *)
(* operator's send / reject buttons and credential replies; rewrites complete  *)
CustomerSessions == Sessions \ OperatorSessions

NextOperator ==
  \/ Tick /\ Before(OpTicks)'
  \/ \E s \in Sessions : btn_lang(s[1], s[2], "en")
  \/ \E s \in CustomerSessions, code \in PkgCodes : btn_trial_pkg(s[1], s[2], code)
  \/ \E s \in CustomerSessions, raw \in {RawP1, RawP2} : on_contact(s[1], s[2], raw)
  \/ \E s \in CustomerSessions : any_text(s[1], s[2], TxtName) /\ AtMost(TRIALS_FILE, OpCap)'
  \/ \E s \in Sessions, tid \in ButtonTids(FALSE) : btn_trial_send(s[1], s[2], tid)
  \/ \E s \in Sessions, tid \in ButtonTids(FALSE), cut \in Cuts(Len(iter_jsonl(TRIALS_FILE)), FALSE) :
       btn_trial_reject(s[1], s[2], tid, cut)
  \/ \E s \in Sessions, cut \in Cuts(Len(iter_jsonl(TRIALS_FILE)), FALSE) :
       admin_force_reply(s[1], s[2], TxtName, cut)

SpecOperator == Init /\ [][NextOperator]_vars

(* The same with storage faults: a rewrite may stop after any number of rows *)
NextFault ==
  \/ \E s \in Sessions : btn_lang(s[1], s[2], "en")
  \/ \E s \in CustomerSessions : btn_trial_pkg(s[1], s[2], "kids")
  \/ \E s \in CustomerSessions, raw \in {RawP1, RawP2} : on_contact(s[1], s[2], raw)
  \/ \E s \in CustomerSessions : any_text(s[1], s[2], TxtName) /\ AtMost(TRIALS_FILE, OpCap)'
  \/ \E s \in OperatorSessions, tid \in ButtonTids(TRUE) : btn_trial_send(s[1], s[2], tid)
  \/ \E s \in OperatorSessions, tid \in ButtonTids(TRUE), cut \in Cuts(Len(iter_jsonl(TRIALS_FILE)), TRUE) :
       btn_trial_reject(s[1], s[2], tid, cut)
  \/ \E s \in OperatorSessions, cut \in Cuts(Len(iter_jsonl(TRIALS_FILE)), TRUE) :
       admin_force_reply(s[1], s[2], TxtName, cut)

SpecFault == Init /\ [][NextFault]_vars

(* The operator path with buttons that outlive their records: the operator    *)
(* taps send-credentials with ids up to StaleIds, which the ledger may not      *)
(* hold (a button of a notification from before the ledger file was replaced);  *)
(* rewrites complete                                                            *)
StaleCap == 2
StaleIds == 3

NextStale ==
  \/ \E s \in Sessions : btn_lang(s[1], s[2], "en")
  \/ \E s \in CustomerSessions : btn_trial_pkg(s[1], s[2], "kids")
  \/ \E s \in CustomerSessions, raw \in {RawP1, RawP2} : on_contact(s[1], s[2], raw)
  \/ \E s \in CustomerSessions : any_text(s[1], s[2], TxtName) /\ AtMost(TRIALS_FILE, StaleCap)'
  \/ \E s \in OperatorSessions, tid \in 1..StaleIds : btn_trial_send(s[1], s[2], tid)
  \/ \E s \in OperatorSessions, tid \in ButtonTids(FALSE), cut \in Cuts(Len(iter_jsonl(TRIALS_FILE)), FALSE) :
       btn_trial_reject(s[1], s[2], tid, cut)
  \/ \E s \in OperatorSessions, cut \in Cuts(Len(iter_jsonl(TRIALS_FILE)), FALSE) :
       admin_force_reply(s[1], s[2], TxtName, cut)

SpecStale == Init /\ [][NextStale]_vars

(* The operator path with and without a configured operator: a customer's     *)
(* trial requests, and taps and replies of every user; rewrites complete       *)
InitAccess == \E admin \in {NoId, Operator} : InitWith(admin)

NextAccess ==
  \/ \E s \in Sessions : btn_lang(s[1], s[2], "en")
  \/ \E s \in CustomerSessions : btn_trial_pkg(s[1], s[2], "kids")
  \/ \E s \in CustomerSessions, raw \in {RawP1, RawP2} : on_contact(s[1], s[2], raw)
  \/ \E s \in CustomerSessions : any_text(s[1], s[2], TxtName) /\ AtMost(TRIALS_FILE, OpCap)'
  \/ \E s \in Sessions, tid \in ButtonTids(FALSE) : btn_trial_send(s[1], s[2], tid)
  \/ \E s \in Sessions, tid \in ButtonTids(FALSE), cut \in Cuts(Len(iter_jsonl(TRIALS_FILE)), FALSE) :
       btn_trial_reject(s[1], s[2], tid, cut)
  \/ \E s \in Sessions, cut \in Cuts(Len(iter_jsonl(TRIALS_FILE)), FALSE) :
       admin_force_reply(s[1], s[2], TxtName, cut)

SpecAccess == InitAccess /\ [][NextAccess]_vars

(* The four flows of one customer, started in any order and at any time *)
RecordsAtMost(n) ==
  Len(TRIALS_FILE) + Len(RENEWALS_FILE) + Len(SUPPORT_FILE) + Len(HISTORY_FILE) <= n

NextFlows ==
  \/ \E s \in CustomerSessions, lang \in Langs : btn_lang(s[1], s[2], lang)
  \/ \E s \in CustomerSessions : btn_paid(s[1], s[2], "AECyberTV Casual")
  \/ \E s \in CustomerSessions : btn_renew_pkg(s[1], s[2], "kids")
  \/ \E s \in CustomerSessions : btn_trial_pkg(s[1], s[2], "kids")
  \/ \E s \in CustomerSessions : btn_support_issue(s[1], s[2], "LOGIN")
  \/ \E s \in CustomerSessions : any_text(s[1], s[2], TxtName) /\ RecordsAtMost(FlowCap)'
  \/ \E s \in CustomerSessions : on_contact(s[1], s[2], RawP1b) /\ RecordsAtMost(FlowCap)'
  \/ \E s \in CustomerSessions : support_done(s[1], s[2]) /\ RecordsAtMost(FlowCap)'

SpecFlows == Init /\ [][NextFlows]_vars

(* Phones of any shape, shared as a contact in any flow or typed at the         *)
(* subscribe phone step, in the first flow of a customer: a prefix of up to     *)
(* MaxPrefix characters before a fixed tail                                     *)
PhoneChars == {"0", "1", "+", " "}
PhoneTail == <<"0", "1", "2", "3", "4">>
PhonePrefixes == UNION {[1..n -> PhoneChars] : n \in 0..MaxPrefix}
RawPhones == {p \o PhoneTail : p \in PhonePrefixes}

\* the user has no flow in progress and has not completed one
Fresh(c, u) ==
  /\ NoFlow(u) /\ ~USER_STATE[c].awaiting_phone
  /\ USER_STATE[c].phone = NoText
  /\ RecordsAtMost(0)

NextPhone ==
  \/ \E s \in CustomerSessions : btn_lang(s[1], s[2], "en")
  \/ \E s \in CustomerSessions : Fresh(s[1], s[2]) /\ btn_paid(s[1], s[2], "AECyberTV Casual")
  \/ \E s \in CustomerSessions : Fresh(s[1], s[2]) /\ btn_renew_pkg(s[1], s[2], "kids")
  \/ \E s \in CustomerSessions : Fresh(s[1], s[2]) /\ btn_trial_pkg(s[1], s[2], "kids")
  \/ \E s \in CustomerSessions : Fresh(s[1], s[2]) /\ btn_support_issue(s[1], s[2], "LOGIN")
  \/ \E s \in CustomerSessions, raw \in RawPhones :
       USER_STATE[s[1]].awaiting_phone /\ any_text(s[1], s[2], raw)
  \/ \E s \in CustomerSessions : any_text(s[1], s[2], TxtName)
  \/ \E s \in CustomerSessions, raw \in RawPhones : on_contact(s[1], s[2], raw)
  \/ \E s \in CustomerSessions : support_done(s[1], s[2])

SpecPhone == Init /\ [][NextPhone]_vars

(* The four flows of one customer, one at a time, with storage and delivery   *)
(* faults: an append may fail, and a send after an append may raise            *)
Idle(c, u) == NoFlow(u) /\ ~USER_STATE[c].awaiting_phone

NextStorage ==
  \/ \E s \in CustomerSessions : btn_lang(s[1], s[2], "en")
  \/ \E s \in CustomerSessions : Idle(s[1], s[2]) /\ btn_paid(s[1], s[2], "AECyberTV Casual")
  \/ \E s \in CustomerSessions : Idle(s[1], s[2]) /\ btn_renew_pkg(s[1], s[2], "kids")
  \/ \E s \in CustomerSessions : Idle(s[1], s[2]) /\ btn_trial_pkg(s[1], s[2], "kids")
  \/ \E s \in CustomerSessions : Idle(s[1], s[2]) /\ btn_support_issue(s[1], s[2], "LOGIN")
  \/ \E s \in CustomerSessions, txt \in {TxtName, RawP1} :
       any_text(s[1], s[2], txt) /\ RecordsAtMost(StorageCap)'
  \/ \E s \in CustomerSessions : on_contact(s[1], s[2], RawP1) /\ RecordsAtMost(StorageCap)'
  \/ \E s \in CustomerSessions : support_done(s[1], s[2]) /\ RecordsAtMost(StorageCap)'
  \/ \E s \in CustomerSessions, txt \in {TxtName, RawP1} : any_text_append_fails(s[1], s[2], txt)
  \/ \E s \in CustomerSessions : on_contact_append_fails(s[1], s[2], RawP1)
  \/ \E s \in CustomerSessions : support_done_append_fails(s[1], s[2])
  \/ \E s \in CustomerSessions, txt \in {TxtName, RawP1}, k \in 0..2 :
       any_text_send_fails(s[1], s[2], txt, k) /\ RecordsAtMost(StorageCap)'
  \/ \E s \in CustomerSessions, k \in 0..2 :
       on_contact_send_fails(s[1], s[2], RawP1, k) /\ RecordsAtMost(StorageCap)'
  \/ \E s \in CustomerSessions, k \in 0..1 :
       support_done_send_fails(s[1], s[2], k) /\ RecordsAtMost(StorageCap)'

SpecStorage == Init /\ [][NextStorage]_vars

(* One customer who meets the bot in the private chat and in a group: the     *)
(* subscribe, renew and support flows in either chat                           *)
ChatSessions == CustomerSessions \cup {<<g, s[2]>> : g \in GroupChats, s \in CustomerSessions}

NextChats ==
  \/ \E s \in ChatSessions : btn_lang(s[1], s[2], "en")
  \/ \E s \in ChatSessions : btn_paid(s[1], s[2], "AECyberTV Casual")
  \/ \E s \in ChatSessions : btn_renew_pkg(s[1], s[2], "kids")
  \/ \E s \in ChatSessions : btn_support_issue(s[1], s[2], "LOGIN")
  \/ \E s \in ChatSessions : any_text(s[1], s[2], TxtName) /\ RecordsAtMost(ChatCap)'
  \/ \E s \in ChatSessions : on_contact(s[1], s[2], RawP1) /\ RecordsAtMost(ChatCap)'
  \/ \E s \in ChatSessions : support_done(s[1], s[2]) /\ RecordsAtMost(ChatCap)'

SpecChats == Init /\ [][NextChats]_vars

(* Every kind of event at every step: one customer in the private chat, the   *)
(* four flows in any order, texts, contacts, photos and /done at any time      *)
NextEvents ==
  \/ \E s \in CustomerSessions : btn_lang(s[1], s[2], "en")
  \/ \E s \in CustomerSessions : btn_paid(s[1], s[2], "AECyberTV Casual")
  \/ \E s \in CustomerSessions : btn_renew_pkg(s[1], s[2], "kids")
  \/ \E s \in CustomerSessions : btn_trial_pkg(s[1], s[2], "kids")
  \/ \E s \in CustomerSessions : btn_support_issue(s[1], s[2], "LOGIN")
  \/ \E s \in CustomerSessions : any_text(s[1], s[2], TxtName) /\ RecordsAtMost(EventCap)'
  \/ \E s \in CustomerSessions : on_contact(s[1], s[2], RawP1) /\ RecordsAtMost(EventCap)'
  \/ \E s \in CustomerSessions, f \in FileIds : s[1] \in PrivateChats /\ on_photo(s[1], s[2], f)
  \/ \E s \in CustomerSessions : support_done(s[1], s[2]) /\ RecordsAtMost(EventCap)'

SpecEvents == Init /\ [][NextEvents]_vars

(* ======================================================================= *)
(* Properties                                                              *)
(* ======================================================================= *)
Trials == iter_jsonl(TRIALS_FILE)

\* the last update was a contact share handled by the trial phone step
TrialPhoneStep == last.handler = "on_contact" /\ last.branch \in {"trial_phone", "trial_denied"}
Denied == last.branch = "trial_denied"
ThirtyDays == 30 * 24

\* rows of the given ledger with the fingerprint of the phone of the last update
SameFp(rows) == {i \in 1..Len(rows) : rows[i].phone_hash = phone_hash(last.phone)}

\* C1: at most one trial record exists per phone fingerprint per calendar month:
\* the trial ledger never holds two records with the same phone_hash and the
\* same year_month, also when two users share a phone.
C1_OnePerPhonePerMonth ==
  \A i, j \in 1..Len(Trials) :
    (Trials[i].phone_hash = Trials[j].phone_hash /\ Trials[i].year_month = Trials[j].year_month)
      => i = j

\* C2 as stated: at the trial phone step a request is denied exactly when the
\* ledger holds a record for that fingerprint and package created less than 30
\* days before now.
C2_DeniedIffWithin30Days ==
  TrialPhoneStep =>
    (Denied <=> \E i \in SameFp(Trials) :
                  /\ Trials[i].package_code = last.pkg
                  /\ now - Trials[i].requested_at < ThirtyDays)

\* C2 amended: at the trial phone step a request is denied exactly when the
\* ledger holds a record with that fingerprint that was created in the current
\* Asia/Dubai calendar month, whatever its age in days.
C2_DeniedIffSameMonth ==
  TrialPhoneStep =>
    (Denied <=> \E i \in SameFp(Trials) : YearMonth(Trials[i].requested_at) = YearMonth(now))

\* a request 30 days after the trial, in the same calendar month, is denied
C2_Witness ==
  /\ TrialPhoneStep /\ Denied
  /\ \A i \in SameFp(Trials) : now - Trials[i].requested_at >= ThirtyDays

\* C3 as stated: a record for the same fingerprint but a different package never
\* causes a denial, so a denied request has a record of its own package.
C3_DeniedOnlyBySamePackage ==
  (TrialPhoneStep /\ Denied) => \E i \in SameFp(Trials) : Trials[i].package_code = last.pkg

\* C3 amended: the check is keyed by fingerprint and calendar month, not by
\* package: a record with the same fingerprint in the current month denies the
\* request whatever its package, and only records with that fingerprint do.
C3_KeyedByFingerprintOnly ==
  TrialPhoneStep =>
    /\ (\E i \in SameFp(Trials) : /\ Trials[i].package_code # last.pkg
                                  /\ Trials[i].year_month = YearMonth(now)) => Denied
    /\ Denied => SameFp(Trials) # {}

C3_Witness ==
  /\ TrialPhoneStep /\ Denied
  /\ \A i \in SameFp(Trials) : Trials[i].package_code # last.pkg

\* the denial's effects: nothing is appended anywhere, the trial step and the
\* selected package of the user are cleared
DenialEffects ==
  /\ Denied'
  /\ UNCHANGED files
  /\ user_data'[last'.user].trial_stage = None
  /\ user_data'[last'.user].trial_pkg_code = None

\* C4 as stated: a second request of the same fingerprint (and package) within
\* the 30-day cooldown is denied, appends no record and resets the trial flow.
C4_DeniedWithinCooldown ==
  [][(TrialPhoneStep' /\ \E i \in SameFp(Trials)' :
                           /\ Trials[i].package_code = last'.pkg
                           /\ now - Trials[i].requested_at < ThirtyDays)
       => DenialEffects]_vars

\* C4 amended: a second request of the same fingerprint within the calendar
\* month of its trial is denied, appends no record to any ledger and clears the
\* trial step and the selected package of the user.
C4_DeniedWithinMonth ==
  [][(TrialPhoneStep' /\ \E i \in SameFp(Trials)' : Trials[i].year_month = YearMonth(now))
       => DenialEffects]_vars

C4_Witness ==
  /\ TrialPhoneStep /\ Denied
  /\ \E i \in SameFp(Trials) : now - Trials[i].requested_at < ThirtyDays
  /\ user_data[last.user].trial_stage = None

\* the validity predicate for phones: an optional leading "+", then a digit, at
\* least 7 characters after the "+"
ValidPhone(p) ==
  LET r == IF p # <<>> /\ p[1] = "+" THEN Tail(p) ELSE p
  IN Len(r) >= 7 /\ r[1] \in Digits

HasKey(msgs, key) == \E k \in 1..Len(msgs) : msgs[k].key = key

\* C5 as stated: at the trial awaiting_phone step an invalid phone leaves the
\* step unchanged and re-emits the phone prompt; a valid, previously unused
\* phone moves the conversation to idle and appends exactly one trial record
\* with status "pending".
C5_PhoneStepAppendsRecord ==
  [][LET u == last'.user
     IN /\ (TrialPhoneStep' /\ ~ValidPhone(last'.phone)) =>
             /\ user_data'[u].trial_stage = "await_phone"
             /\ HasKey(sent', "trial_share_phone")
        /\ (last'.handler = "any_text" /\ user_data[u].trial_stage = "await_phone") =>
             /\ user_data'[u].trial_stage = "await_phone"
             /\ HasKey(sent', "trial_share_phone")
        /\ (TrialPhoneStep' /\ ValidPhone(last'.phone) /\ SameFp(Trials)' = {}) =>
             /\ user_data'[u].trial_stage = None
             /\ Len(Trials') = Len(Trials) + 1
             /\ Trials'[Len(Trials')].status = "pending"]_vars

\* C5 amended: at the trial awaiting_phone step a typed text leaves the step
\* unchanged (the menu is shown); a shared contact is not validated: unless it
\* is denied, its normalized phone is stored and the step becomes
\* awaiting_username, with no record appended; the text then handled at the
\* awaiting_username step appends exactly one trial record, with status
\* "pending", that phone and the selected package, and clears the trial flow.
C5_UsernameStepAppendsRecord ==
  [][LET u == last'.user
         ud == user_data[u]
         n == Len(Trials)
     IN /\ (TrialPhoneStep' /\ ~Denied') =>
             /\ user_data'[u].trial_stage = "await_username"
             /\ user_data'[u].trial_phone_e164 = last'.phone
             /\ UNCHANGED files
        /\ (last'.handler = "any_text" /\ last'.branch = "menu" /\ ud.trial_stage = "await_phone") =>
             UNCHANGED <<user_data, files>>
        /\ (last'.handler = "any_text" /\ last'.branch = "trial_username") =>
             /\ ud.trial_stage = "await_username"
             /\ Len(Trials') = n + 1
             /\ SubSeq(Trials', 1, n) = Trials
             /\ Trials'[n + 1].status = "pending"
             /\ Trials'[n + 1].phone_e164 = ud.trial_phone_e164
             /\ Trials'[n + 1].package_code = ud.trial_pkg_code
             /\ user_data'[u].trial_stage = None
             /\ user_data'[u].trial_pkg_code = None
             /\ UNCHANGED <<RENEWALS_FILE, SUPPORT_FILE, HISTORY_FILE>>]_vars

C5_Witness ==
  /\ last.handler = "any_text" /\ last.branch = "trial_username"
  /\ Trials # <<>>
  /\ Trials[Len(Trials)].status = "pending"
  /\ Trials[Len(Trials)].phone_e164 = last.phone
  /\ ValidPhone(last.phone)
  /\ user_data[last.user].trial_stage = None

Renewals == iter_jsonl(RENEWALS_FILE)
Tickets == iter_jsonl(SUPPORT_FILE)
Customers == iter_jsonl(HISTORY_FILE)

\* the ids of the records of a ledger are strictly increasing in file order
IdsIncreasing(rows) == \A i, j \in 1..Len(rows) : i < j => rows[i].id < rows[j].id

\* if the step from rows to rows2 appended a record, its id, which save_jsonl
\* returned to the handler, is the number of records before plus one, and it
\* follows the id of the record before it
AppendReturnsNext(rows, rows2, returned) ==
  Len(rows2) > Len(rows) =>
    /\ Len(rows2) = Len(rows) + 1
    /\ rows2[Len(rows2)].id = Len(rows) + 1
    /\ returned = Len(rows) + 1
    /\ Len(rows) > 0 => rows2[Len(rows2)].id = rows[Len(rows)].id + 1

\* C6: in each of the trial, renewal and support ledgers, after any sequence of
\* appends and operator status rewrites (reject, grant) the ids of the records
\* are pairwise distinct and strictly increasing in file order, and every
\* append returns the number of records stored before it plus one, so that two
\* consecutive appends to a ledger return consecutive ids.
C6_LedgerIds ==
  [][/\ IdsIncreasing(Trials') /\ IdsIncreasing(Renewals') /\ IdsIncreasing(Tickets')
     /\ AppendReturnsNext(Trials, Trials', last'.id)
     /\ AppendReturnsNext(Renewals, Renewals', last'.id)
     /\ AppendReturnsNext(Tickets, Tickets', last'.id)]_vars

C6_Witness ==
  /\ last.handler = "any_text" /\ last.branch = "trial_username" /\ last.id = 2
  /\ Len(Trials) = 2 /\ Trials[1].id = 1 /\ Trials[2].id = 2
  /\ Trials[1].status # "pending"

\* a text made of an optional leading "+" and digits
IsNormalized(p) == \A i \in 1..Len(p) : p[i] \in Digits \/ (i = 1 /\ p[i] = "+")

\* C7: the subscribe scenario, step by step, for every chat: selecting a package
\* of the price list stores it as the chat's selection; agreeing to the terms
\* changes nothing of the chat's state; acknowledging payment only makes the
\* chat await a phone; the updates of other chats leave the chat's state alone;
\* and the contact shared by a chat awaiting a phone appends exactly one
\* customer record, with the selected package and the normalized phone, sends
\* the chat the thank-you and leaves the chat no longer awaiting a phone.
C7_SubscribeScenario ==
  [][\A c \in Chats :
       LET st == USER_STATE[c]
           n == Len(Customers)
       IN /\ (last'.chat = c /\ last'.branch = "pkg") =>
               /\ last'.data \in DOMAIN PACKAGES
               /\ USER_STATE'[c] = [st EXCEPT !.package = last'.data]
          /\ (last'.chat = c /\ last'.branch = "agree") => USER_STATE'[c] = st
          /\ (last'.chat = c /\ last'.branch = "paid") =>
               USER_STATE'[c] = [st EXCEPT !.awaiting_phone = TRUE]
          /\ (last'.chat # c) => USER_STATE'[c] = st
          /\ (last'.chat = c /\ last'.handler = "on_contact" /\ st.awaiting_phone) =>
               /\ Len(Customers') = n + 1
               /\ SubSeq(Customers', 1, n) = Customers
               /\ Customers'[n + 1].chat_id = c
               /\ Customers'[n + 1].package = st.package
               /\ Customers'[n + 1].phone \in {normalize_phone(raw) : raw \in ContactPhones}
               /\ IsNormalized(Customers'[n + 1].phone)
               /\ USER_STATE'[c].phone = Customers'[n + 1].phone
               /\ \E k \in 1..Len(sent') : sent'[k] = M(c, "thank_you")
               /\ ~USER_STATE'[c].awaiting_phone
               /\ UNCHANGED <<TRIALS_FILE, RENEWALS_FILE, SUPPORT_FILE>>]_vars

C7_Witness ==
  /\ last.handler = "on_contact" /\ last.branch = "subscribe_phone"
  /\ Len(Customers) = 1
  /\ Customers[1].chat_id = last.chat
  /\ Customers[1].package = "AECyberTV Casual"
  /\ Customers[1].phone = <<"+", "9", "7", "1", "5", "0", "0", "1">>
  /\ HasKey(sent, "thank_you")
  /\ ~USER_STATE[last.chat].awaiting_phone
  /\ USER_STATE[last.chat].lang = "en"

\* the reject button of the operator took effect in the last update
Rejected == last.handler = "on_button" /\ last.branch = "trial_reject"

\* C8: when the operator rejects trial id k, the trial ledger afterwards holds
\* the record with id k with status "rejected", and every other record, line
\* by line, is what it was (extra keys such as granted_at included), with the
\* number and the order of the records preserved.
C8_RejectChangesOnlyThatRecord ==
  [][Rejected' =>
       LET k == last'.id
       IN /\ Len(Trials') = Len(Trials)
          /\ Len(TRIALS_FILE') = Len(TRIALS_FILE)
          /\ \E i \in 1..Len(Trials) : Trials[i].id = k
          /\ \A i \in 1..Len(Trials) :
               IF Trials[i].id = k
                 THEN Trials'[i].id = k /\ Trials'[i].status = "rejected"
                 ELSE Trials'[i] = Trials[i] /\ TRIALS_FILE'[i] = TRIALS_FILE[i]]_vars

C8_Witness ==
  /\ Rejected
  /\ Len(Trials) = 2
  /\ \E i, j \in 1..2 :
       /\ Trials[i].id = last.id /\ Trials[i].status = "rejected"
       /\ j # i /\ Trials[j].status = "granted" /\ "granted_at" \in DOMAIN Trials[j]

\* a rewrite of the trial ledger failed part-way in the last update
RewriteFailed == last.branch \in {"trial_reject_failed", "grant_failed"}

\* C9: a rewrite of the trial ledger (reject or grant) that fails part-way
\* leaves the previously stored content intact.
C9_FailedRewriteKeepsContent == [][RewriteFailed' => TRIALS_FILE' = TRIALS_FILE]_vars

\* C10: when the operator has requested credential entry for trial id k and
\* then supplies the credentials text, the record with id k gets status
\* "granted" and the credentials and the expiry are delivered to the chat
\* stored on that record, where the expiry is the record's creation time plus
\* the hours of its package in TRIAL_HOURS.
C10_GrantDeliversToOrigin ==
  [][\A u \in Users :
       LET k == user_data[u].awaiting_trial_creds_for
       IN (last'.handler = "admin_force_reply" /\ last'.user = u /\ _is_admin(u) /\ k # NoId) =>
            \E i \in 1..Len(Trials) :
              /\ Trials[i].id = k
              /\ Len(Trials') = Len(Trials)
              /\ Trials'[i].id = k
              /\ Trials'[i].status = "granted"
              /\ \E m \in 1..Len(sent') :
                   /\ sent'[m].to = Trials[i].tg_chat_id
                   /\ sent'[m].key = "trial_activated"
                   /\ sent'[m].text = strip(TxtName)
                   /\ sent'[m].exp = Trials[i].requested_at + TRIAL_HOURS[Trials[i].package_code]]_vars

C10_Witness ==
  /\ last.handler = "admin_force_reply" /\ last.branch = "granted"
  /\ \E i \in 1..Len(Trials) :
       /\ Trials[i].id = last.id
       /\ Trials[i].status = "granted"
       /\ Trials[i].package_code = "kids"
       /\ Trials[i].tg_chat_id # last.chat
       /\ Trials[i].requested_at < now
       /\ \E m \in 1..Len(sent) :
            /\ sent[m].to = Trials[i].tg_chat_id
            /\ sent[m].exp = Trials[i].requested_at + 8

\* the pending credential-entry request of a user
Slot(u) == user_data[u].awaiting_trial_creds_for

\* C11: the operator session holds one outstanding credential-entry request
\* and the last request wins: a send-credentials tap for id b sets the slot to
\* b whatever it held; the operator's next reply grants only b, leaves every
\* other record (a's status included) as it was and empties the slot; a reply
\* with an empty slot changes no record and delivers nothing.
C11_LastRequestWins ==
  [][\A u \in Users :
       /\ (last'.user = u /\ last'.handler = "on_button" /\ last'.branch = "trial_send") =>
            /\ Slot(u)' = last'.id
            /\ UNCHANGED files
       /\ (last'.user = u /\ last'.handler = "admin_force_reply" /\ _is_admin(u) /\ Slot(u) # NoId) =>
            /\ Slot(u)' = NoId
            /\ Len(Trials') = Len(Trials)
            /\ \A i \in 1..Len(Trials) :
                 IF Trials[i].id = Slot(u)
                   THEN Trials'[i].status = "granted"
                   ELSE Trials'[i] = Trials[i]
       /\ (last'.user = u /\ last'.handler = "admin_force_reply" /\ _is_admin(u) /\ Slot(u) = NoId) =>
            /\ UNCHANGED <<files, user_data>>
            /\ sent' = <<>>]_vars

C11_Witness ==
  /\ last.handler = "admin_force_reply" /\ last.branch = "nothing_pending"
  /\ _is_admin(last.user) /\ Slot(last.user) = NoId
  /\ Len(Trials) = 2
  /\ Trials[1].status = "pending" /\ Trials[2].status = "granted"
  /\ sent = <<>>

\* the last update was on the operator path: a send-credentials tap, a reject
\* tap, or a reply in a private chat
OperatorPath ==
  \/ last.handler = "admin_force_reply"
  \/ /\ last.handler = "on_button"
     /\ \/ last.branch \in {"trial_send", "trial_reject", "trial_reject_failed", "admins_only"}
        \/ last.branch = "no_lang" /\ last.data \in {"trial_send", "trial_reject"}

\* the chats stored on the trial records
OriginatingChats == {Trials[i].tg_chat_id : i \in 1..Len(Trials)}

\* C12: a send-credentials tap, a reject tap or a credential reply of a user
\* who is not the configured operator (every user when no operator is
\* configured) changes no ledger, neither sets nor clears a pending credential
\* slot, and delivers nothing to any chat stored on a trial record.
C12_OnlyOperatorActs ==
  [][\A u \in Users :
       (OperatorPath' /\ last'.user = u /\ ADMIN_CHAT_ID # u) =>
         /\ UNCHANGED files
         /\ user_data' = user_data
         /\ \A m \in 1..Len(sent') : sent'[m].to \notin OriginatingChats]_vars

C12_Witness ==
  /\ OperatorPath /\ last.branch \in {"admins_only", "not_admin"}
  /\ ADMIN_CHAT_ID = NoId
  /\ last.user = Operator
  /\ Len(Trials) = 2
  /\ \A i \in 1..2 : Trials[i].status = "pending"
  /\ \A u \in Users : Slot(u) = NoId

\* the flows a user has in progress in their private chat
FlowsInProgress(u) ==
  (IF USER_STATE[u].awaiting_phone THEN {"subscribe"} ELSE {}) \cup
  (IF user_data[u].renew_stage # None THEN {"renew"} ELSE {}) \cup
  (IF user_data[u].trial_stage # None THEN {"trial"} ELSE {}) \cup
  (IF user_data[u].support_issue_code # None THEN {"support"} ELSE {})

\* C13: there is no flow stacking: in every reachable state a user has at most
\* one of the subscribe, renew, trial and support flows in progress.
C13_NoFlowStacking == \A u \in Users : Cardinality(FlowsInProgress(u)) <= 1

\* C14: a support ticket is appended only by a done event received in the
\* awaiting_optional_attachment step, after issue choice, username, phone and
\* details have been collected; a done event at an earlier step appends none.
C14_TicketOnlyAfterDetails ==
  [][Len(Tickets') > Len(Tickets) =>
       /\ last'.handler = "support_done"
       /\ user_data[last'.user].support_stage = "await_optional_screenshot"
       /\ Tickets'[Len(Tickets')].username_text # <<"-">>
       /\ Tickets'[Len(Tickets')].phone_e164 # <<"-">>
       /\ Tickets'[Len(Tickets')].details # <<"-">>]_vars

\* the phone fields of the records of the four files are normalized
PhonesNormalized(rows, field) == \A i \in 1..Len(rows) : IsNormalized(rows[i][field])

\* C15: every phone stored on a customer, trial, renewal or support record is
\* in normalized form, an optional leading "+" followed by digits only.
C15_StoredPhonesNormalized ==
  /\ PhonesNormalized(Customers, "phone")
  /\ PhonesNormalized(Trials, "phone_e164")
  /\ PhonesNormalized(Renewals, "phone_e164")
  /\ PhonesNormalized(Tickets, "phone_e164")

IsDigit(ch) == ch \in Digits
DigitCount(p) == Len(SelectSeq(p, IsDigit))

\* the validity predicate on a normalized phone: an optional leading "+", then
\* digits only, at least 7 of them
ValidNormalized(p) == IsNormalized(p) /\ DigitCount(p) >= 7

\* the validity predicate on a typed text: an optional leading "+", a digit,
\* then at least 6 characters, each a digit, a blank, "-", "(" or ")"
TypedValid(s) ==
  LET r == IF s # <<>> /\ s[1] = "+" THEN Tail(s) ELSE s
  IN /\ Len(r) >= 7
     /\ r[1] \in Digits
     /\ \A k \in 2..Len(r) : r[k] \in Digits \cup {" ", "-", "(", ")"}

\* the last update stored a phone and advanced the step that awaited it
PhoneAccepted == last.branch \in {"subscribe_phone", "renew_phone", "trial_phone", "support_phone"}

\* a step of the user awaits a phone
AwaitsPhone(u) ==
  \/ USER_STATE[u].awaiting_phone
  \/ user_data[u].renew_stage = "await_phone"
  \/ user_data[u].trial_stage = "await_phone"
  \/ user_data[u].support_stage = "await_phone"

\* C16 as stated: a phone, typed or shared, is accepted by a flow step only if
\* after normalization it is an optional "+" then digits, at least 7 of them.
C16_AcceptedOnlyIfValid == [][PhoneAccepted' => ValidNormalized(last'.phone)]_vars

\* C16 amended: a text typed at the subscribe phone step is accepted (its
\* normalization stored, the step left, one customer record appended) exactly
\* when the text itself has the valid shape, and is otherwise rejected with
\* nothing changed; a contact shared while a step awaits a phone is never
\* rejected for its shape: it is stored and the step advanced, or, at the trial
\* step, denied by the monthly limit.
C16_TypedCheckedContactUnchecked ==
  [][\A u \in Users :
       /\ (last'.user = u /\ last'.handler = "any_text" /\ USER_STATE[u].awaiting_phone) =>
            IF TypedValid(last'.txt)
              THEN /\ last'.branch = "subscribe_phone"
                   /\ USER_STATE'[u].phone = normalize_phone(last'.txt)
                   /\ ~USER_STATE'[u].awaiting_phone
                   /\ Len(Customers') = Len(Customers) + 1
                   /\ Customers'[Len(Customers')].phone = normalize_phone(last'.txt)
              ELSE /\ last'.branch = "subscribe_phone_invalid"
                   /\ UNCHANGED <<USER_STATE, user_data, files>>
       /\ (last'.user = u /\ last'.handler = "on_contact" /\ AwaitsPhone(u)) =>
            /\ PhoneAccepted' \/ last'.branch = "trial_denied"
            /\ <<USER_STATE, user_data>>' # <<USER_STATE, user_data>>]_vars

C16_Witness ==
  /\ last.handler = "on_contact" /\ last.branch = "renew_phone"
  /\ ~ValidNormalized(last.phone)
  /\ ~IsNormalized(last.phone)
  /\ Len(Renewals) = 1
  /\ Renewals[1].phone_e164 = last.phone
  /\ user_data[last.user].renew_stage = None

\* C17: normalize_phone is idempotent on valid raw phones: for a typed text
\* accepted by PHONE_RE, normalizing the stored normalized phone again gives
\* the same phone.
C17_NormalizeIdempotent ==
  (last.handler = "any_text" /\ last.branch = "subscribe_phone") =>
    /\ last.phone = normalize_phone(last.txt)
    /\ normalize_phone(last.phone) = last.phone

\* C18: for every raw input normalize_phone returns an optional leading "+"
\* followed by digits only (no "+" at a later position, no other character):
\* the normalized phone of every shared contact and of every accepted typed
\* text has that shape.
C18_NormalizeShape ==
  (last.handler = "on_contact" \/ last.branch = "subscribe_phone") => IsNormalized(last.phone)

\* C19: in the subscribe flow at the awaiting_phone step a text that fails the
\* phone validation is answered with the phone prompt and its error, leaves
\* the chat awaiting a phone, stores no phone and appends no record, each time
\* it happens.
C19_InvalidPhoneReprompts ==
  [][\A u \in Users :
       (last'.user = u /\ last'.handler = "any_text" /\ USER_STATE[u].awaiting_phone
          /\ ~TypedValid(last'.txt)) =>
         /\ sent' = <<M(u, "phone_invalid")>>
         /\ USER_STATE'[u].awaiting_phone
         /\ USER_STATE' = USER_STATE
         /\ UNCHANGED <<user_data, files>>]_vars

C19_Witness ==
  /\ last.handler = "any_text" /\ last.branch = "subscribe_phone_invalid"
  /\ ~TypedValid(last.txt) /\ last.txt[1] \in Digits
  /\ USER_STATE[last.chat].awaiting_phone
  /\ USER_STATE[last.chat].phone = NoText
  /\ Customers = <<>>
  /\ HasKey(sent, "phone_invalid")

\* C20: changing the language changes only the chat's language: the flows in
\* progress, their steps and every collected field of every user and chat are
\* what they were, and no record is appended.
C20_LanguageChangeOnly ==
  [][(last'.handler = "on_button" /\ last'.branch = "lang") =>
       /\ USER_STATE' = [USER_STATE EXCEPT ![last'.chat].lang = last'.data]
       /\ user_data' = user_data
       /\ UNCHANGED files]_vars

C20_Witness ==
  /\ last.handler = "on_button" /\ last.branch = "lang" /\ last.data = "ar"
  /\ USER_STATE[last.chat].lang = "ar"
  /\ USER_STATE[last.chat].awaiting_phone
  /\ user_data[last.user].renew_stage = "await_phone"
  /\ user_data[last.user].renew_username = TxtName
  /\ user_data[last.user].trial_stage = "await_username"
  /\ user_data[last.user].trial_phone_e164 # NoText

\* C21: the renew flow: once a package is chosen for renewal, the user's next
\* text is stored as the username and the step becomes awaiting phone; the
\* next contact share then appends exactly one renewal record with that
\* package, that username and the normalized phone, notifies the operator with
\* the renewal id, and resets the renew flow to idle.
C21_RenewFlow ==
  [][\A u \in Users :
       /\ (last'.user = u /\ last'.handler = "any_text"
             /\ user_data[u].renew_stage = "await_username") =>
            /\ user_data'[u].renew_username = last'.txt
            /\ user_data'[u].renew_stage = "await_phone"
       /\ (last'.user = u /\ last'.handler = "on_contact"
             /\ user_data[u].renew_stage = "await_phone") =>
            /\ Len(Renewals') = Len(Renewals) + 1
            /\ Renewals'[Len(Renewals')].package_code = user_data[u].renew_pkg_code
            /\ Renewals'[Len(Renewals')].username_text = user_data[u].renew_username
            /\ Renewals'[Len(Renewals')].phone_e164 = last'.phone
            /\ \E k \in 1..Len(sent') :
                 /\ sent'[k].to = ADMIN_CHAT_ID /\ sent'[k].key = "new_renewal"
                 /\ sent'[k].ref = Renewals'[Len(Renewals')].id
            /\ user_data'[u].renew_stage = None
            /\ user_data'[u].renew_pkg_code = None]_vars

\* the last update reached a flow's terminal step and its append failed
AppendFailed ==
  last.branch \in {"subscribe_append_failed", "renew_append_failed",
                   "trial_append_failed", "support_append_failed"}

\* C22: when the append of a record fails at the terminal step of the
\* subscribe, renew, trial or support flow, the conversation state (the chat's
\* and the user's flow, step and collected fields) stays as it was, so that
\* the same input repeated retries the append.
C22_FailedAppendKeepsStep ==
  [][AppendFailed' => (USER_STATE' = USER_STATE /\ user_data' = user_data)]_vars

\* the messages that confirm a successful step to the user
SuccessKeys == {"phone_saved", "thank_you", "renewal_received", "trial_received", "ticket_created"}

\* C23: when the append of a record fails, the user is sent a failure message
\* and no success confirmation (such as the thank-you), and the operator is
\* alerted.
C23_FailedAppendReported ==
  [][AppendFailed' =>
       /\ \E k \in 1..Len(sent') : sent'[k].to = last'.chat
       /\ \A k \in 1..Len(sent') : sent'[k].key \notin SuccessKeys
       /\ \E k \in 1..Len(sent') : sent'[k].to = ADMIN_CHAT_ID]_vars

\* the last update appended a record and a send that followed the append raised
SendFailed ==
  last.branch \in {"subscribe_send_failed", "renew_send_failed",
                   "trial_send_failed", "support_send_failed"}

\* C24: when the user acknowledgement or the operator notification that
\* follows an append fails to be delivered, the flow is nevertheless reset to
\* idle, so that no later event of the user appends a second record for it.
C24_FailedSendResetsFlow ==
  [][\A u \in Users : (last'.user = u /\ SendFailed') => FlowsInProgress(u)' = {}]_vars

\* the operator notification of the record with this id was issued while the
\* last update was handled: it was delivered, or the handler got as far as
\* sending it (the acknowledgement before it was delivered) and its own
\* delivery failed
Notified(key, ack, id) ==
  \/ \E k \in 1..Len(sent) :
       sent[k].to = ADMIN_CHAT_ID /\ sent[k].key = key /\ sent[k].ref = id
  \/ SendFailed /\ HasKey(sent, ack)

\* C25: with an operator configured, the append of a trial record or of a
\* support ticket is followed by an operator notification that carries that
\* record's id (for a trial, on its send-credentials and reject buttons), and
\* every such notification carries the id of the record just appended.
C25_AppendNotifiesOperator ==
  [][ADMIN_CHAT_ID # NoId =>
       /\ Len(Trials') > Len(Trials) =>
            \E id \in 1..Len(Trials') :
              id = Trials'[Len(Trials')].id /\ Notified("new_trial_request", "trial_received", id)'
       /\ Len(Tickets') > Len(Tickets) =>
            \E id \in 1..Len(Tickets') :
              id = Tickets'[Len(Tickets')].id /\ Notified("new_support_ticket", "ticket_created", id)'
       /\ \A k \in 1..Len(sent') :
            /\ sent'[k].key = "new_trial_request" =>
                 Len(Trials') = Len(Trials) + 1 /\ sent'[k].ref = Trials'[Len(Trials')].id
            /\ sent'[k].key = "new_support_ticket" =>
                 Len(Tickets') = Len(Tickets) + 1 /\ sent'[k].ref = Tickets'[Len(Tickets')].id]_vars

\* the last update was a reject tap of the operator
OperatorReject ==
  /\ last.handler = "on_button"
  /\ last.branch \in {"trial_reject", "trial_reject_failed"}

\* C26: an operator reject sends no message to the originating chat: its only
\* output is the rejected mark edited into the operator's own notification, in
\* the chat where the button was tapped; the chat stored on the rejected record
\* receives nothing.
C26_RejectSilentToOrigin ==
  [][OperatorReject' =>
       /\ \A k \in 1..Len(sent') :
            sent'[k].key = "rejected_mark" /\ sent'[k].to = last'.chat
       /\ \A i \in 1..Len(Trials), k \in 1..Len(sent') :
            (Trials[i].id = last'.id /\ Trials[i].tg_chat_id # last'.chat) =>
              sent'[k].to # Trials[i].tg_chat_id]_vars

C26_Witness ==
  /\ OperatorReject /\ last.user = Operator /\ last.id = 2
  /\ Len(Trials) = 2
  /\ Trials[2].status = "rejected" /\ Trials[2].tg_chat_id # last.chat
  /\ Trials[1].status = "granted"
  /\ sent = <<Msg(last.chat, "rejected_mark", 2, NoText, NoId)>>

\* a step that is set has the selection that opened its flow
StepHasSelection(u) ==
  /\ user_data[u].renew_stage # None => user_data[u].renew_pkg_code # None
  /\ user_data[u].trial_stage # None => user_data[u].trial_pkg_code # None
  /\ user_data[u].support_stage # None => user_data[u].support_issue_code # None
  /\ user_data[u].trial_stage = "await_username" => user_data[u].trial_phone_e164 # NoText

\* C27: in every reachable state a user with no flow in progress (no renew
\* package, no trial package, no issue code selected) has no current step of
\* that flow: a renew step implies a renew package, a trial step a trial
\* package, a support step an issue code; and the trial awaiting-username step
\* implies a stored phone, which is the phone that passed the eligibility check
\* (no trial record with its fingerprint in the current month) when the step
\* was entered.
C27_StepImpliesSelection ==
  [][\A u \in Users :
       /\ StepHasSelection(u)'
       /\ (user_data'[u].trial_stage = "await_username" /\ user_data[u].trial_stage # "await_username") =>
            /\ last'.handler = "on_contact" /\ last'.user = u
            /\ user_data'[u].trial_phone_e164 = last'.phone
            /\ \A i \in 1..Len(Trials) :
                 ~(Trials[i].phone_hash = phone_hash(last'.phone)
                     /\ Trials[i].year_month = YearMonth(now))]_vars

C27_Witness ==
  /\ last.handler = "on_contact" /\ last.branch = "trial_denied"
  /\ Len(Trials) = 1
  /\ user_data[last.user].trial_stage = None /\ user_data[last.user].trial_pkg_code = None
  /\ user_data[last.user].renew_stage = "await_username"
  /\ user_data[last.user].renew_pkg_code = "kids"
  /\ user_data[last.user].support_stage = "await_username"
  /\ user_data[last.user].support_issue_code = "LOGIN"
  /\ Len(Renewals) = 1

\* C28: customer records are sequentially identified like those of the
\* other files: the i-th record of customers.jsonl carries the 1-based
\* sequence id i (the number of customer records stored before it plus one).
C28_CustomerIds ==
  \A i \in 1..Len(Customers) :
    /\ "id" \in DOMAIN Customers[i]
    /\ Customers[i]["id"] = i

\* the users whose events can come from a chat: its owner for a private chat,
\* any user for a group
Members(c) == IF c \in PrivateChats THEN {c} ELSE Users

\* C29: conversation state is per chat and independent: handling an event of
\* chat A changes neither the state kept for another chat B nor the flow,
\* step and collected fields that govern the events of B's members in B, also
\* when the user of the event takes part in both chats.
C29_ChatsIndependent ==
  [][\A b \in Chats :
       (last'.chat # NoId /\ b # last'.chat) =>
         /\ USER_STATE'[b] = USER_STATE[b]
         /\ \A u \in Members(b) : user_data'[u] = user_data[u]]_vars

\* C30: events that no current step is waiting for are ignored: a contact
\* share while no step of the user awaits a phone, a photo outside the support
\* attachment step, and a done event while no support flow is in progress
\* change no conversation state and append no record.
C30_UnmatchedIgnored ==
  [][\A u \in Users :
       /\ (last'.user = u /\ last'.handler = "on_contact" /\ ~AwaitsPhone(u)) =>
            UNCHANGED <<USER_STATE, user_data, files>>
       /\ (last'.user = u /\ last'.handler = "on_photo"
             /\ user_data[u].support_stage # "await_optional_screenshot") =>
            UNCHANGED <<USER_STATE, user_data, files>>
       /\ (last'.user = u /\ last'.handler = "support_done"
             /\ user_data[u].support_issue_code = None) =>
            UNCHANGED <<USER_STATE, user_data, files>>]_vars

C30_Witness ==
  /\ last.handler = "on_contact" /\ ~AwaitsPhone(last.user)
  /\ sent = <<>>
  /\ user_data[last.user].renew_stage = "await_username"
  /\ user_data[last.user].trial_stage = "await_username"
  /\ user_data[last.user].support_stage = "await_details"
  /\ user_data[last.user].support_photo_file_id = None
  /\ Len(Customers) = 1

\* C31: the subscribe flow keeps its step order: a chat awaits a phone for a
\* subscription only after a package selection (then the terms agreement and
\* the payment acknowledgement); an agree or paid tap with no package selected
\* does not make the chat await a phone, so every customer record has a
\* non-null package, one the chat selected.
C31_SubscribeOrder ==
  /\ \A c \in Chats : USER_STATE[c].awaiting_phone => USER_STATE[c].package \in DOMAIN PACKAGES
  /\ \A i \in 1..Len(Customers) : Customers[i].package \in DOMAIN PACKAGES

\* C32: the status of a trial record only moves from "pending" to "granted"
\* or from "pending" to "rejected": a record that is granted or rejected keeps
\* its status under every later operator action, and credentials are never
\* delivered for a rejected record.
C32_StatusFinal ==
  [][\A i \in 1..Len(Trials) :
       /\ (i <= Len(Trials') /\ Trials[i].status # "pending") =>
            Trials'[i].status = Trials[i].status
       /\ Trials[i].status = "rejected" =>
            \A k \in 1..Len(sent') :
              ~(sent'[k].key = "trial_activated" /\ sent'[k].ref = Trials[i].id)]_vars

\* the last update completed a flow: it appended the flow's record
Completed ==
  \/ last.handler = "on_contact" /\ last.branch \in {"subscribe_phone", "renew_phone"}
  \/ last.handler = "any_text" /\ last.branch = "trial_username"
  \/ last.handler = "support_done" /\ last.branch = "ticket"

\* C33: redelivery of a flow's terminal event is harmless: when the event
\* that completed a flow (the contact share in subscribe and renew, the
\* username text in trial, the done event in support) is handled a second
\* time right after the first, from the same chat and user and with the same
\* payload, no record is appended and every file is unchanged.
C33_RedeliveryHarmless ==
  [][(/\ Completed
      /\ last'.handler = last.handler
      /\ last'.chat = last.chat /\ last'.user = last.user
      /\ last'.txt = last.txt
      /\ last.handler = "on_contact" => last'.phone = last.phone) =>
       UNCHANGED files]_vars

\* the last update was a tap of the configured operator on the button named
\* (a tap answered with the language prompt carries the button name as data)
OperatorTap(button) ==
  /\ last.handler = "on_button" /\ last.user = ADMIN_CHAT_ID
  /\ \/ last.branch = button
     \/ last.branch = "no_lang" /\ last.data = button

\* C34: an operator tap on send-credentials or reject for an existing trial id
\* always takes effect, whatever the state of the operator's own chat, also
\* when that chat has never chosen a language: the pending slot is set to the
\* id, respectively the record's status is set to "rejected".
C34_OperatorTapTakesEffect ==
  [][/\ OperatorTap("trial_send")' =>
          /\ last'.id \in 1..Len(Trials)
          /\ Slot(Operator)' = last'.id
     /\ OperatorTap("trial_reject")' =>
          /\ last'.id \in 1..Len(Trials)
          /\ Trials'[last'.id].status = "rejected"]_vars

\* a step of the user awaits a text
AwaitsText(u) ==
  \/ USER_STATE[u].awaiting_phone
  \/ user_data[u].renew_stage = "await_username"
  \/ user_data[u].trial_stage = "await_username"
  \/ user_data[u].support_stage \in {"await_username", "await_details"}

\* the last update was a text message, sent as a reply or not
TextMessage == last.handler \in {"any_text", "admin_force_reply"}

\* C35: a text message of a user who is not the operator, in a step that
\* awaits a text, is processed by that step (stored and the step advanced, or
\* answered with a prompt) whether or not it is sent as a reply to another
\* message: it is never dropped without any effect.
C35_ReplyTextProcessed ==
  [][\A u \in Users :
       (TextMessage' /\ last'.user = u /\ ADMIN_CHAT_ID # u /\ AwaitsText(u)) =>
         \/ <<USER_STATE, user_data>>' # <<USER_STATE, user_data>>
         \/ sent' # <<>>]_vars

\* the slot of the user holds an id that no record of the trial ledger has
StaleSlot(u) == Slot(u) # NoId /\ \A i \in 1..Len(Trials) : Trials[i].id # Slot(u)

\* C36: when the pending credential slot holds an id that matches no record of
\* the trial ledger, the operator's credential reply changes the status of no
\* record, delivers no message to any chat, leaves the number and the order of
\* the records unchanged, and empties the slot.
C36_StaleSlotReply ==
  [][\A u \in Users :
       (last'.user = u /\ last'.handler = "admin_force_reply" /\ ADMIN_CHAT_ID = u /\ StaleSlot(u)) =>
         /\ Len(Trials') = Len(Trials)
         /\ \A i \in 1..Len(Trials) : Trials'[i] = Trials[i]
         /\ sent' = <<>>
         /\ Slot(u)' = NoId]_vars

C36_Witness ==
  /\ last.handler = "admin_force_reply" /\ last.branch = "no_such_trial"
  /\ Slot(last.user) = NoId
  /\ sent = <<>>
  /\ Len(Trials) = 2
  /\ \A i \in 1..Len(Trials) : Trials[i].id # last.id
  /\ Trials[1].status = "rejected" /\ Trials[2].status = "pending"

=============================================================================
